---- MODULE Spec2Model ----
(***************************************************************************)
(* Order engine and terminal-payment state machine of the grooming         *)
(* backend (backend/app/services/order_service.py and                      *)
(* backend/app/services/payment_processing_service.py).                    *)
(*                                                                         *)
(* Money columns are Numeric(10, 2): a stored amount is the integer number *)
(* of 1/Scale dollars.  Provider amounts are integers of minor units.      *)
(* Nullable ids and timestamps use Null.  Timestamps are readings of the   *)
(* clock `now`.                                                            *)
(***************************************************************************)
EXTENDS Integers, Sequences, FiniteSets, TLC

VARIABLES
    appointments,   \* appointments table: id -> [business_id, price]
    orders,         \* orders table, a sequence: the row id is the index
    payments,       \* payments table, a sequence: the row id is the index
    devices,        \* ids of the rows present in payment_devices
    checkouts,      \* number of terminal checkouts the provider has created
    now,            \* the clock read by datetime.now(timezone.utc)
    last,           \* the last handler call: [op, outcome, provider]
    requests,       \* create-order requests in flight: slot -> its position
    tax_rates,      \* history: the tax_rate argument each order was created with
    time_blocks     \* time_blocks table, a sequence: the row id is the index

vars == <<appointments, orders, payments, devices, checkouts, now, last,
          requests, tax_rates, time_blocks>>

-----------------------------------------------------------------------------
(* Bounds *)

MaxTime == 2
MaxCheckouts == 1

-----------------------------------------------------------------------------
(* Representation *)

\* NULL of a nullable column (ids start at 1, the clock starts at 1).
Null == 0

\* Numeric(10, 2): amounts are stored in units of 1/Scale dollar.
Scale == 100

\* A provider Money object that is absent (tip_money is None).
NoTip == -1

\* An appointment without a linked service.
NoService == -1

\* Order.discount_value that is NULL (None is not 0.00).
NoDiscount == -1

Businesses == {1, 2}

\* Decimal.quantize(Decimal("0.01")) under the default context
\* (ROUND_HALF_EVEN) of the exact quotient num / den, num >= 0, den > 0.
RoundHalfEven(num, den) ==
    LET q == num \div den
        r == num % den
    IN  IF 2 * r > den \/ (2 * r = den /\ q % 2 = 1) THEN q + 1 ELSE q

\* Decimal(tip_cents) / 100 stored in a Numeric(10, 2) column.
DollarsFromCents(cents) == RoundHalfEven(cents * Scale, 100)

\* int(order.total * 100): the amount sent to the provider, in cents.
CentsFromDollars(amount) == (amount * 100) \div Scale

-----------------------------------------------------------------------------
(* Orders *)

\* generate_order_number: ORD-{timestamp to the second}-{business_id}.
generate_order_number(business_id, t) == <<t, business_id>>

\* Tax rates are Decimal with 4 decimal places: the integer number of 1/10000.
RateUnit == 10000

\* Mutant: the tax is left out of the total of a new Order.
NewOrder_TotalWithoutTax(appointment_id, business_id, tax_rate, t) ==
    LET price    == appointments[appointment_id].price
        subtotal == IF price # NoService /\ price # 0 THEN price ELSE 0
        tax      == RoundHalfEven(subtotal * tax_rate, RateUnit)
    IN  [ business_id     |-> business_id,
          appointment_id  |-> appointment_id,
          order_number    |-> generate_order_number(business_id, t),
          subtotal        |-> subtotal,
          tax             |-> tax,
          tip             |-> 0,
          total           |-> subtotal,
          discount_type   |-> "none",
          discount_value  |-> NoDiscount,
          discount_amount |-> 0,
          order_status    |-> "pending",
          payment_status  |-> "unpaid",
          completed_at    |-> Null ]

\* The Order row create_order_from_appointment builds (lines 93-117).
NewOrder(appointment_id, business_id, tax_rate, t) ==
    LET price    == appointments[appointment_id].price
        subtotal == IF price # NoService /\ price # 0 THEN price ELSE 0
        tax      == RoundHalfEven(subtotal * tax_rate, RateUnit)
    IN  [ business_id     |-> business_id,
          appointment_id  |-> appointment_id,
          order_number    |-> generate_order_number(business_id, t),
          subtotal        |-> subtotal,
          tax             |-> tax,
          tip             |-> 0,
          total           |-> subtotal + tax,
          discount_type   |-> "none",
          discount_value  |-> NoDiscount,
          discount_amount |-> 0,
          order_status    |-> "pending",
          payment_status  |-> "unpaid",
          completed_at    |-> Null ]

OrderIds == 1..Len(orders)

\* select(Order).where(Order.id == order_id, Order.business_id == business_id)
OrderFound(order_id, business_id) ==
    order_id \in OrderIds /\ orders[order_id].business_id = business_id

\* OrderService.complete_order (lines 291-301).
complete_order(ord, t) ==
    [ord EXCEPT !.order_status = "completed", !.completed_at = t]

-----------------------------------------------------------------------------
(* Payment devices: rows of payment_devices joined with their configuration *)

DeviceIds == 1..4

\* configuration_id is NOT NULL (models/payment_device.py:35-40): a device row
\* always has a configuration, which is active or not.
DeviceRow(d) ==
    CASE d = 1 -> [business_id |-> 1, is_active |-> TRUE,  config_active |-> TRUE]
      [] d = 2 -> [business_id |-> 1, is_active |-> FALSE, config_active |-> TRUE]
      [] d = 3 -> [business_id |-> 2, is_active |-> TRUE,  config_active |-> TRUE]
      [] d = 4 -> [business_id |-> 1, is_active |-> TRUE,  config_active |-> FALSE]

\* The ids a caller may pass: the rows and one id that never existed.
DeviceArgs == DeviceIds \cup {Cardinality(DeviceIds) + 1}

\* Mutant: the device query without its is_active filter.
ActiveDeviceFound_AnyState(device_id, business_id) ==
    /\ device_id \in devices
    /\ DeviceRow(device_id).business_id = business_id

\* select(PaymentDevice).where(id == .., business_id == .., is_active == True)
ActiveDeviceFound(device_id, business_id) ==
    /\ device_id \in devices
    /\ DeviceRow(device_id).business_id = business_id
    /\ DeviceRow(device_id).is_active

\* config = device.configuration; "not config or not config.is_active".
ConfigUsable(device_id) == DeviceRow(device_id).config_active

-----------------------------------------------------------------------------
(* Payments *)

PaymentIds == 1..Len(payments)

\* Mutant: the payment query without its business_id filter.
PaymentFound_AnyBusiness(payment_id, business_id) ==
    payment_id \in PaymentIds

\* select(Payment).where(Payment.id == payment_id, Payment.business_id == ..)
PaymentFound(payment_id, business_id) ==
    payment_id \in PaymentIds /\ payments[payment_id].business_id = business_id

\* The Payment row initiate_terminal_payment adds and flushes (lines 91-103),
\* with the column defaults of the model.
NewPayment(order_id, business_id, device_id) ==
    [ business_id        |-> business_id,
      order_id           |-> order_id,
      payment_device_id  |-> device_id,
      amount             |-> orders[order_id].total,
      tip_amount         |-> 0,
      status             |-> "pending",
      square_checkout_id |-> Null,
      error_message      |-> "",
      completed_at       |-> Null,
      failed_at          |-> Null,
      cancelled_at       |-> Null ]

\* What the provider can answer to get_terminal_checkout and get_payment.
\* status "RAISE": the call raises.  payment_id: the checkout names a payment.
\* tip: the checkout's tip_money.  fetched: get_payment returns (it is called
\* only when the checkout names a payment).  details: the tip_money of the
\* payment record.  The tip fields are read only for a COMPLETED checkout.
\* payment_metadata, square_payment_id and square_receipt_url are written
\* and never read by the handlers: they are not part of the Payment row here.
RemoteStatuses == {"PENDING", "IN_PROGRESS", "COMPLETED", "CANCELED", "FAILED"}
TipValues == {NoTip, 0, 250}
Responses ==
    { r \in [ status     : RemoteStatuses \cup {"RAISE"},
              payment_id : BOOLEAN,
              tip        : TipValues,
              fetched    : BOOLEAN,
              details    : TipValues ] :
        /\ r.status # "COMPLETED" =>
              ~r.payment_id /\ r.tip = NoTip
        /\ ~r.payment_id => ~r.fetched
        /\ ~r.fetched => r.details = NoTip }

\* payment_details as poll_payment_status obtains it (lines 248-254): fetched
\* only when the checkout names a payment, None when get_payment raises.
HasDetails(resp) == resp.payment_id /\ resp.fetched

\* Mutant: the checkout's tip_money preferred to the payment record's.
TipMoney_CheckoutFirst(resp) ==
    IF resp.tip # NoTip THEN resp.tip
    ELSE IF HasDetails(resp) THEN resp.details
    ELSE NoTip

\* The tip _complete_payment extracts (lines 313-319): the payment record's
\* tip_money when present, else the checkout's.
TipMoney(resp) ==
    IF HasDetails(resp) /\ resp.details # NoTip THEN resp.details
    ELSE resp.tip

\* _complete_payment on the Payment row (lines 291-336).
CompletedPayment(pay, resp, t) ==
    [pay EXCEPT !.status = "completed",
                !.completed_at = t,
                !.tip_amount =
                    IF TipMoney(resp) # NoTip
                    THEN DollarsFromCents(TipMoney(resp)) ELSE @]

\* Mutant: the completion recomputes the Order's total without its tax.
PaidOrder_Retotal(ord, t) ==
    complete_order([ord EXCEPT !.payment_status = "paid",
                               !.total = ord.subtotal + ord.tip], t)

\* _complete_payment on the Order row (lines 343-345).
PaidOrder(ord, t) ==
    complete_order([ord EXCEPT !.payment_status = "paid"], t)

\* Mutant: every remote end state recorded as "failed".
FailedPayment_AlwaysFailed(pay, square_status, t) ==
    [pay EXCEPT !.status = "failed",
                !.failed_at = t,
                !.error_message = square_status]

\* _fail_payment on the Payment row (lines 360-362).
FailedPayment(pay, square_status, t) ==
    [pay EXCEPT !.status = IF square_status = "FAILED" THEN "failed"
                           ELSE "cancelled",
                !.failed_at = t,
                !.error_message = square_status]

\* _fail_payment on the Order row (lines 365-366).
FailedOrder(ord) == [ord EXCEPT !.payment_status = "failed"]

\* cancel_payment on the Payment row (lines 437-438).
CancelledPayment(pay, t) ==
    [pay EXCEPT !.status = "cancelled", !.cancelled_at = t]

\* cancel_payment on the Order row (lines 441-442).
UnpaidOrder(ord) == [ord EXCEPT !.payment_status = "unpaid"]

-----------------------------------------------------------------------------
(* Handlers of the payment state machine.  Each is one request: one         *)
(* transaction that commits at the end or is rolled back when it raises.    *)

\* The exception classes the API layer maps to 400 (api/payments.py:808-820,
\* 848-860, 894-906): these outcomes are raised as ValueError.
ValueErrors ==
    { "order_not_found", "already_paid", "payment_not_found", "bad_status",
      "no_checkout", "device_not_found", "config_inactive" }

HttpStatus(outcome) ==
    IF outcome = "ok" THEN 200
    ELSE IF outcome \in ValueErrors THEN 400
    ELSE 500

\* What the provider and the store can do to an initiation that passed its
\* validation: "ok", "raise" (create_terminal_checkout raises), "commit_fails"
\* (the checkout exists and db.commit() raises).
InitiateFates == {"ok", "raise", "commit_fails"}

\* initiate_terminal_payment, lines 55-88 and the try block 111-172.
InitiateOutcome(order_id, business_id, device_id, fate) ==
    IF ~OrderFound(order_id, business_id) THEN "order_not_found"
    ELSE IF orders[order_id].payment_status = "paid" THEN "already_paid"
    ELSE IF ~ActiveDeviceFound(device_id, business_id) THEN "device_not_found"
    ELSE IF ~ConfigUsable(device_id) THEN "config_inactive"
    ELSE IF fate = "raise" THEN "provider_error"
    ELSE IF fate = "commit_fails" THEN "commit_error"
    ELSE "ok"

\* lines 149-157: the checkout id and status on the Payment, the Order pending.
InitiatedPayment(order_id, business_id, device_id, checkout_id) ==
    [NewPayment(order_id, business_id, device_id) EXCEPT
        !.square_checkout_id = checkout_id]

PendingOrder(ord) == [ord EXCEPT !.payment_status = "pending"]

\* Mutant: no rollback when the provider call raises.
InitiateCommits_NoRollback(out) == out \in {"ok", "provider_error"}

\* Whether the session's pending changes reach the store: db.commit() at
\* line 159, db.rollback() in the except block at line 170, and nothing
\* flushed when the validation raised.
InitiateCommits(out) == out = "ok"

\* The outcomes in which the handler called the provider.
ProviderReached(out) == out \in {"ok", "provider_error", "commit_error"}

initiate_terminal_payment(order_id, business_id, device_id, fate) ==
    LET out == InitiateOutcome(order_id, business_id, device_id, fate)
        \* the session when the handler ends: the flushed Payment row, with the
        \* checkout id once the provider has answered, and the Order
        flushed == out \in {"ok", "provider_error", "commit_error"}
        answered == out \in {"ok", "commit_error"}
        row == IF answered
               THEN InitiatedPayment(order_id, business_id, device_id,
                                     checkouts + 1)
               ELSE NewPayment(order_id, business_id, device_id)
    IN  /\ answered => checkouts < MaxCheckouts
        /\ last' = [ op |-> "initiate", outcome |-> out,
                     provider |-> ProviderReached(out) ]
        /\ checkouts' = IF answered THEN checkouts + 1 ELSE checkouts
        /\ IF flushed /\ InitiateCommits(out)
           THEN /\ payments' = Append(payments, row)
                /\ orders' = IF answered
                             THEN [orders EXCEPT ![order_id] = PendingOrder(@)]
                             ELSE orders
           ELSE UNCHANGED <<payments, orders>>
        /\ UNCHANGED <<time_blocks, appointments, devices, now, requests, tax_rates>>

\* poll_payment_status, lines 191-228 and the provider call of line 232.
PollOutcome(payment_id, business_id, resp) ==
    IF ~PaymentFound(payment_id, business_id) THEN "payment_not_found"
    ELSE IF payments[payment_id].square_checkout_id = Null THEN "no_checkout"
    ELSE IF payments[payment_id].payment_device_id \notin devices
         THEN "device_not_found"
    ELSE IF ~ConfigUsable(payments[payment_id].payment_device_id)
         THEN "config_inactive"
    ELSE IF resp.status = "RAISE" THEN "provider_error"
    ELSE "ok"

\* Mutant: a CANCELED or FAILED checkout leaves the Payment as it is.
PolledPayment_CompletedOnly(pay, resp, t) ==
    IF resp.status = "COMPLETED" THEN CompletedPayment(pay, resp, t)
    ELSE pay

\* lines 242-264: the Payment row after the dispatch on the remote status.
PolledPayment(pay, resp, t) ==
    IF resp.status = "COMPLETED" THEN CompletedPayment(pay, resp, t)
    ELSE IF resp.status \in {"CANCELED", "FAILED"}
         THEN FailedPayment(pay, resp.status, t)
    ELSE pay

\* lines 245-264: the Order row of the polled Payment.
PolledOrder(ord, resp, t) ==
    IF resp.status = "COMPLETED" THEN PaidOrder(ord, t)
    ELSE IF resp.status \in {"CANCELED", "FAILED"} THEN FailedOrder(ord)
    ELSE ord

poll_payment_status(payment_id, business_id, resp) ==
    LET out == PollOutcome(payment_id, business_id, resp)
    IN  /\ last' = [ op |-> "poll", outcome |-> out,
                     provider |-> out \in {"ok", "provider_error"} ]
        /\ IF out = "ok"
           THEN LET pay == payments[payment_id]
                IN  /\ payments' = [payments EXCEPT
                            ![payment_id] = PolledPayment(pay, resp, now)]
                    /\ orders' =
                         IF pay.order_id # Null
                         THEN [orders EXCEPT
                                 ![pay.order_id] = PolledOrder(@, resp, now)]
                         ELSE orders
           ELSE UNCHANGED <<payments, orders>>
        /\ UNCHANGED <<time_blocks, appointments, devices, checkouts, now, requests, tax_rates>>

\* Mutant: cancel_payment without its status check.
CancelOutcome_NoStatusCheck(payment_id, business_id, provider_ok) ==
    IF ~PaymentFound(payment_id, business_id) THEN "payment_not_found"
    ELSE IF payments[payment_id].square_checkout_id = Null THEN "no_checkout"
    ELSE IF payments[payment_id].payment_device_id \notin devices
         THEN "device_not_found"
    ELSE IF ~ConfigUsable(payments[payment_id].payment_device_id)
         THEN "config_inactive"
    ELSE IF ~provider_ok THEN "provider_error"
    ELSE "ok"

\* cancel_payment, lines 390-430 and the provider call of line 434.
CancelOutcome(payment_id, business_id, provider_ok) ==
    IF ~PaymentFound(payment_id, business_id) THEN "payment_not_found"
    ELSE IF payments[payment_id].status # "pending" THEN "bad_status"
    ELSE IF payments[payment_id].square_checkout_id = Null THEN "no_checkout"
    ELSE IF payments[payment_id].payment_device_id \notin devices
         THEN "device_not_found"
    ELSE IF ~ConfigUsable(payments[payment_id].payment_device_id)
         THEN "config_inactive"
    ELSE IF ~provider_ok THEN "provider_error"
    ELSE "ok"

cancel_payment(payment_id, business_id, provider_ok) ==
    LET out == CancelOutcome(payment_id, business_id, provider_ok)
    IN  /\ last' = [ op |-> "cancel", outcome |-> out,
                     provider |-> out \in {"ok", "provider_error"} ]
        /\ IF out = "ok"
           THEN LET pay == payments[payment_id]
                IN  /\ payments' = [payments EXCEPT
                            ![payment_id] = CancelledPayment(pay, now)]
                    /\ orders' =
                         IF pay.order_id # Null
                         THEN [orders EXCEPT ![pay.order_id] = UnpaidOrder(@)]
                         ELSE orders
           ELSE UNCHANGED <<payments, orders>>
        /\ UNCHANGED <<time_blocks, appointments, devices, checkouts, now, requests, tax_rates>>

\* payment_service.delete_payment_device (lines 324-343); the payments that
\* name the device keep their row, payment_device_id SET NULL
\* (models/payment.py:49-53).
delete_payment_device(business_id, device_id) ==
    /\ device_id \in devices
    /\ DeviceRow(device_id).business_id = business_id
    /\ devices' = devices \ {device_id}
    /\ payments' = [p \in PaymentIds |->
                      IF payments[p].payment_device_id = device_id
                      THEN [payments[p] EXCEPT !.payment_device_id = Null]
                      ELSE payments[p]]
    /\ last' = [op |-> "delete_device", outcome |-> "ok", provider |-> FALSE]
    /\ UNCHANGED <<time_blocks, appointments, orders, checkouts, now, requests, tax_rates>>

\* Time passes between requests.
Tick ==
    /\ now < MaxTime
    /\ now' = now + 1
    /\ UNCHANGED <<time_blocks, appointments, orders, payments, devices, checkouts, last,
                   requests, tax_rates>>

-----------------------------------------------------------------------------
(* The payment state machine over two orders of two businesses *)

Idle == [op |-> "none", outcome |-> "ok", provider |-> FALSE]

PayAppointments ==
    [a \in 1..2 |-> [business_id |-> a, price |-> IF a = 1 THEN 8000 ELSE 2500]]

Init ==
    /\ appointments = PayAppointments
    /\ orders = << NewOrder(1, 1, 800, 1), NewOrder(2, 2, 0, 1) >>
    /\ payments = << >>
    /\ devices = DeviceIds
    /\ checkouts = 0
    /\ now = 1
    /\ last = Idle
    /\ requests = << >>
    /\ tax_rates = << 800, 0 >>
    /\ time_blocks = << >>

\* The provider is reached only by a call that passed its validation: for
\* the other calls one fate stands for all.
Initiate ==
    \E o \in 1..(Len(orders) + 1), b \in Businesses, d \in DeviceArgs :
        \E fate \in IF InitiateOutcome(o, b, d, "ok") = "ok"
                     THEN InitiateFates ELSE {"ok"} :
            initiate_terminal_payment(o, b, d, fate)

Poll ==
    \E p \in 1..(Len(payments) + 1), b \in Businesses :
        \E resp \in IF PollOutcome(p, b, [status |-> "PENDING"]) = "ok"
                     THEN Responses
                     ELSE {r \in Responses : r.status = "PENDING"} :
            poll_payment_status(p, b, resp)

Cancel ==
    \E p \in 1..(Len(payments) + 1), b \in Businesses :
        \E ok \in IF CancelOutcome(p, b, TRUE) = "ok" THEN BOOLEAN ELSE {TRUE} :
            cancel_payment(p, b, ok)

DeleteDevice ==
    \E b \in Businesses, d \in DeviceIds : delete_payment_device(b, d)

Next == Initiate \/ Poll \/ Cancel

Spec == Init /\ [][Next]_vars

-----------------------------------------------------------------------------
(* Properties of the payment state machine *)

Terminal == {"completed", "failed", "cancelled"}

\* The Order a Payment is linked to, in the current and in the next state.
OrderOf(p) == orders[payments[p].order_id]
OrderOfNext(p) == orders'[payments[p].order_id]

PollCalls == PaymentIds \X Businesses \X Responses
InitiateCalls ==
    (1..(Len(orders) + 1)) \X Businesses \X DeviceArgs \X InitiateFates

\* C1: once a Payment has left "pending", no poll_payment_status,
\* cancel_payment or initiate_terminal_payment call changes its status again.
C1_TerminalIsFinal ==
    [][\A p \in PaymentIds :
          payments[p].status \in Terminal
              => payments'[p].status = payments[p].status]_vars

\* C2: a poll of a Payment that is already terminal leaves the Payment's
\* status, completed_at, failed_at and cancelled_at and the Order's
\* payment_status, order_status and completed_at as they were, whatever the
\* provider reports.
C2_RepollChangesNothing ==
    [][\A c \in PollCalls :
          ( /\ poll_payment_status(c[1], c[2], c[3])
            /\ payments[c[1]].status \in Terminal )
          => /\ payments'[c[1]].status = payments[c[1]].status
             /\ payments'[c[1]].completed_at = payments[c[1]].completed_at
             /\ payments'[c[1]].failed_at = payments[c[1]].failed_at
             /\ payments'[c[1]].cancelled_at = payments[c[1]].cancelled_at
             /\ OrderOfNext(c[1]).payment_status = OrderOf(c[1]).payment_status
             /\ OrderOfNext(c[1]).order_status = OrderOf(c[1]).order_status
             /\ OrderOfNext(c[1]).completed_at = OrderOf(c[1]).completed_at]_vars

\* The tip the provider reports, as the claim words it: the payment record's
\* when a record was obtained and carries one, otherwise the checkout's.
C3_ReportedTip(resp) ==
    IF resp.payment_id /\ resp.fetched /\ resp.details # NoTip
    THEN resp.details ELSE resp.tip

\* C3: when a poll observes COMPLETED for a pending Payment linked to an
\* Order, then afterwards the Payment is "completed" with completed_at set,
\* its tip_amount in dollars is the reported tip in cents divided by 100, and
\* the Order is "paid" and "completed" with completed_at set.
C3_CompletionSetsBothRecords ==
    [][\A c \in PollCalls :
          ( /\ poll_payment_status(c[1], c[2], c[3])
            /\ last'.outcome = "ok"
            /\ c[3].status = "COMPLETED"
            /\ payments[c[1]].status = "pending"
            /\ payments[c[1]].order_id # Null )
          => /\ payments'[c[1]].status = "completed"
             /\ payments'[c[1]].completed_at # Null
             /\ C3_ReportedTip(c[3]) # NoTip =>
                  payments'[c[1]].tip_amount * 100 = C3_ReportedTip(c[3]) * Scale
             /\ OrderOfNext(c[1]).payment_status = "paid"
             /\ OrderOfNext(c[1]).order_status = "completed"
             /\ OrderOfNext(c[1]).completed_at # Null]_vars

\* A poll has completed a Payment with the 2.50 tip of the payment record.
C3_Witness ==
    /\ last.op = "poll" /\ last.outcome = "ok"
    /\ \E p \in PaymentIds :
          /\ payments[p].status = "completed"
          /\ payments[p].tip_amount = 250
          /\ OrderOf(p).payment_status = "paid"
          /\ OrderOf(p).order_status = "completed"

\* What cancel_payment requires of the Payment.
C4_Cancellable(p, b) ==
    /\ p \in PaymentIds
    /\ payments[p].business_id = b
    /\ payments[p].status = "pending"
    /\ payments[p].square_checkout_id # Null

\* C4: cancel_payment is accepted only for a pending Payment with a checkout
\* id, and otherwise fails and changes neither the Payment nor the Order;
\* an accepted cancel whose provider call succeeds leaves the Payment
\* "cancelled" with cancelled_at set and the Order "unpaid"; one whose
\* provider call fails leaves the Payment "pending" and the Order unchanged;
\* a CANCELED found by polling a pending Payment leaves the Order "failed".
C4_CancelContract ==
    [][ /\ \A p \in 1..(Len(payments) + 1), b \in Businesses, ok \in BOOLEAN :
             cancel_payment(p, b, ok) =>
               /\ ~C4_Cancellable(p, b) =>
                     /\ last'.outcome # "ok"
                     /\ UNCHANGED <<payments, orders>>
               /\ last'.outcome = "ok" =>
                     /\ C4_Cancellable(p, b)
                     /\ payments'[p].status = "cancelled"
                     /\ payments'[p].cancelled_at # Null
                     /\ OrderOfNext(p).payment_status = "unpaid"
               /\ (C4_Cancellable(p, b) /\ ok) => last'.outcome = "ok"
               /\ (C4_Cancellable(p, b) /\ ~ok) =>
                     /\ last'.outcome = "provider_error"
                     /\ payments'[p].status = "pending"
                     /\ UNCHANGED <<payments, orders>>
        /\ \A c \in PollCalls :
             ( /\ poll_payment_status(c[1], c[2], c[3])
               /\ last'.outcome = "ok"
               /\ c[3].status = "CANCELED"
               /\ payments[c[1]].status = "pending" )
             => OrderOfNext(c[1]).payment_status = "failed" ]_vars

\* A cancel has been accepted: the Payment is cancelled, the Order unpaid.
C4_Witness ==
    /\ last.op = "cancel" /\ last.outcome = "ok"
    /\ \E p \in PaymentIds :
          /\ payments[p].status = "cancelled"
          /\ payments[p].cancelled_at # Null
          /\ OrderOf(p).payment_status = "unpaid"

\* C5: when a poll observes FAILED or CANCELED for a pending Payment, the
\* Payment becomes "failed" for FAILED and "cancelled" for CANCELED, failed_at
\* is stamped, an error message is recorded, the Order's payment_status
\* becomes "failed" and its order_status is unchanged.
C5_RemoteFailure ==
    [][\A c \in PollCalls :
          ( /\ poll_payment_status(c[1], c[2], c[3])
            /\ last'.outcome = "ok"
            /\ c[3].status \in {"FAILED", "CANCELED"}
            /\ payments[c[1]].status = "pending" )
          => /\ payments'[c[1]].status =
                  IF c[3].status = "FAILED" THEN "failed" ELSE "cancelled"
             /\ payments'[c[1]].failed_at # Null
             /\ payments'[c[1]].error_message # ""
             /\ OrderOfNext(c[1]).payment_status = "failed"
             /\ OrderOfNext(c[1]).order_status = OrderOf(c[1]).order_status]_vars

\* A poll has found the checkout CANCELED.
C5_Witness ==
    /\ last.op = "poll" /\ last.outcome = "ok"
    /\ \E p \in PaymentIds :
          /\ payments[p].status = "cancelled"
          /\ payments[p].failed_at # Null
          /\ payments[p].error_message = "CANCELED"
          /\ OrderOf(p).payment_status = "failed"

\* C6: initiate_terminal_payment is all-or-nothing.  Either it succeeds and
\* persists one new Payment, "pending", with a checkout id and the Order's
\* total as amount, and the Order's payment_status is "pending"; or it fails
\* and persists no Payment and leaves the Order as it was.  It fails whenever
\* the checkout creation or a later step fails.  No persisted pending Payment
\* lacks a checkout id.
C6_AllOrNothing ==
    /\ [](\A p \in PaymentIds :
             payments[p].status = "pending"
                 => payments[p].square_checkout_id # Null)
    /\ [][\A c \in InitiateCalls :
            initiate_terminal_payment(c[1], c[2], c[3], c[4]) =>
              /\ c[4] # "ok" => last'.outcome # "ok"
              /\ IF last'.outcome = "ok"
                 THEN /\ Len(payments') = Len(payments) + 1
                      /\ \A p \in PaymentIds : payments'[p] = payments[p]
                      /\ payments'[Len(payments')].status = "pending"
                      /\ payments'[Len(payments')].square_checkout_id # Null
                      /\ payments'[Len(payments')].order_id = c[1]
                      /\ payments'[Len(payments')].amount = orders[c[1]].total
                      /\ orders'[c[1]].payment_status = "pending"
                 ELSE UNCHANGED <<payments, orders>>]_vars

\* An initiation has succeeded and a later one has failed at the provider:
\* the first left its Payment and set the Order pending, the second left
\* nothing.
C6_Witness ==
    /\ last.op = "initiate" /\ last.outcome = "provider_error"
    /\ Len(payments) = 1
    /\ payments[1].status = "pending"
    /\ payments[1].square_checkout_id # Null
    /\ payments[1].amount = OrderOf(1).total
    /\ OrderOf(1).payment_status = "pending"

\* The requests the claim lists: the order does not exist for the business
\* or is paid, the device is missing, inactive or of another business, or
\* its configuration is inactive.
C7_Invalid(o, b, d) ==
    \/ o \notin OrderIds
    \/ orders[o].business_id # b
    \/ orders[o].payment_status = "paid"
    \/ d \notin devices
    \/ DeviceRow(d).business_id # b
    \/ ~DeviceRow(d).is_active
    \/ ~DeviceRow(d).config_active

\* C7: such a request fails with a validation error (ValueError, HTTP 400),
\* contacts no provider, creates no Payment and leaves the Order unchanged.
C7_InvalidRequestRejected ==
    [][\A c \in InitiateCalls :
          ( /\ initiate_terminal_payment(c[1], c[2], c[3], c[4])
            /\ C7_Invalid(c[1], c[2], c[3]) )
          => /\ last'.outcome \in ValueErrors
             /\ HttpStatus(last'.outcome) = 400
             /\ ~last'.provider
             /\ UNCHANGED <<payments, orders, checkouts>>]_vars

\* An initiation for an Order that is already paid has been rejected.
C7_Witness ==
    /\ last.op = "initiate" /\ last.outcome = "already_paid"
    /\ \E o \in OrderIds : orders[o].payment_status = "paid"

-----------------------------------------------------------------------------
(* create_order_from_appointment, one database round trip at a time *)

\* Bound: the create-order requests that may be in flight together.
MaxRequests == 3

\* Appointments of the order engine: one with a service per business and one
\* without a linked service.
OrderAppointments ==
    [a \in 1..3 |->
        CASE a = 1 -> [business_id |-> 1, price |-> 8000]
          [] a = 2 -> [business_id |-> 2, price |-> 2500]
          [] a = 3 -> [business_id |-> 1, price |-> NoService]]

\* OrderCreate.tax_rate values (ge 0, le 1, 4 decimal places), in 1/RateUnit.
CreateRates == {0, 800}

\* lines 56-62: the appointment is looked up by id and business.
AppointmentFound(appointment_id, business_id) ==
    /\ appointment_id \in DOMAIN appointments
    /\ appointments[appointment_id].business_id = business_id

\* lines 68-70: the existing order is looked up by appointment id alone.
OrderExistsFor(appointment_id) ==
    \E o \in OrderIds : orders[o].appointment_id = appointment_id

\* Mutant: the orders table without its unique constraints.
UniqueViolation_NoConstraint(row) == FALSE

\* The unique constraints of orders.appointment_id (models/order.py:52-57)
\* and orders.order_number (models/order.py:80-85), checked by the INSERT
\* that db.commit() flushes.
UniqueViolation(row) ==
    \E o \in OrderIds :
        \/ orders[o].appointment_id = row.appointment_id
        \/ orders[o].order_number = row.order_number

\* create_order (api/payments.py:657-677): ValueError becomes 400, any other
\* exception, the IntegrityError of the INSERT included, becomes 500.
CreateHttpStatus(outcome) ==
    IF outcome = "ok" THEN 201
    ELSE IF outcome \in {"appointment_not_found", "order_exists"} THEN 400
    ELSE 500

IdleRequest ==
    [ pc |-> "idle", appointment_id |-> Null, business_id |-> Null,
      tax_rate |-> 0, existed |-> FALSE, outcome |-> "none" ]

Slots == 1..MaxRequests

\* The request arrives and runs lines 56-65.  `existed` records whether an
\* Order for the appointment was stored when the call was made.
CreateBegin(slot, appointment_id, business_id, tax_rate) ==
    /\ requests[slot].pc = "idle"
    /\ requests' = [requests EXCEPT ![slot] =
          [ pc             |-> IF AppointmentFound(appointment_id, business_id)
                               THEN "check" ELSE "done",
            appointment_id |-> appointment_id,
            business_id    |-> business_id,
            tax_rate       |-> tax_rate,
            existed        |-> OrderExistsFor(appointment_id),
            outcome        |-> IF AppointmentFound(appointment_id, business_id)
                               THEN "none" ELSE "appointment_not_found" ]]
    /\ UNCHANGED <<time_blocks, appointments, orders, payments, devices, checkouts, now,
                   last, tax_rates>>

\* lines 68-73.
CreateCheck(slot) ==
    /\ requests[slot].pc = "check"
    /\ requests' = [requests EXCEPT ![slot] =
          IF OrderExistsFor(@.appointment_id)
          THEN [@ EXCEPT !.pc = "done", !.outcome = "order_exists"]
          ELSE [@ EXCEPT !.pc = "commit"]]
    /\ UNCHANGED <<time_blocks, appointments, orders, payments, devices, checkouts, now,
                   last, tax_rates>>

\* lines 93-120: the row is built and inserted; the session is closed, hence
\* rolled back, when the INSERT raises (core/database.py:28-37).
CreateCommit(slot) ==
    LET r   == requests[slot]
        row == NewOrder(r.appointment_id, r.business_id, r.tax_rate, now)
    IN  /\ r.pc = "commit"
        /\ IF UniqueViolation(row)
           THEN /\ requests' = [requests EXCEPT ![slot] =
                       [@ EXCEPT !.pc = "done", !.outcome = "integrity_error"]]
                /\ UNCHANGED <<orders, tax_rates>>
           ELSE /\ requests' = [requests EXCEPT ![slot] =
                       [@ EXCEPT !.pc = "done", !.outcome = "ok"]]
                /\ orders' = Append(orders, row)
                /\ tax_rates' = Append(tax_rates, r.tax_rate)
        /\ UNCHANGED <<time_blocks, appointments, payments, devices, checkouts, now, last>>

InitCreate ==
    /\ appointments = OrderAppointments
    /\ orders = << >>
    /\ payments = << >>
    /\ devices = DeviceIds
    /\ checkouts = 0
    /\ now = 1
    /\ last = Idle
    /\ requests = [s \in Slots |-> IdleRequest]
    /\ tax_rates = << >>
    /\ time_blocks = << >>

\* A request takes the first free slot.
Begin ==
    \E slot \in Slots, a \in DOMAIN appointments, b \in Businesses,
       rate \in CreateRates :
        /\ \A t \in 1..(slot - 1) : requests[t].pc # "idle"
        /\ CreateBegin(slot, a, b, rate)

Check == \E slot \in Slots : CreateCheck(slot)

Commit == \E slot \in Slots : CreateCommit(slot)

NextCreate == Begin \/ Check \/ Commit \/ Tick

SpecCreate == InitCreate /\ [][NextCreate]_vars

-----------------------------------------------------------------------------
(* Properties of order creation *)

\* No two Orders share an appointment_id.
OneOrderPerAppointment ==
    \A o1, o2 \in OrderIds :
        orders[o1].appointment_id = orders[o2].appointment_id => o1 = o2

\* The request of slot s ends in this step.
Finishes(s) == requests[s].pc # "done" /\ requests'[s].pc = "done"

\* C8 as stated: after any interleaving of create_order_from_appointment
\* calls no two Orders share an appointment_id, and every call made when an
\* Order already existed for the appointment fails with 'Order already
\* exists' (ValueError, HTTP 400) and leaves the stored orders unchanged.
C8_ExistingOrderRejected ==
    /\ []OneOrderPerAppointment
    /\ [][\A s \in Slots :
            (Finishes(s) /\ requests'[s].existed)
            => /\ requests'[s].outcome = "order_exists"
               /\ CreateHttpStatus(requests'[s].outcome) = 400
               /\ orders' = orders]_vars

\* C8, amended: no two Orders share an appointment_id, and every call made
\* when an Order already existed for the appointment leaves the stored orders
\* unchanged and fails with a ValueError (HTTP 400): 'Order already exists'
\* when the appointment belongs to the caller's business, 'Appointment not
\* found' when it belongs to another business.
C8_ExistingOrderRejectedForOwner ==
    /\ []OneOrderPerAppointment
    /\ [][\A s \in Slots :
            (Finishes(s) /\ requests'[s].existed)
            => /\ requests'[s].outcome =
                    IF AppointmentFound(requests'[s].appointment_id,
                                        requests'[s].business_id)
                    THEN "order_exists" ELSE "appointment_not_found"
               /\ CreateHttpStatus(requests'[s].outcome) = 400
               /\ orders' = orders]_vars

\* Two calls for one appointment raced, the loser was stopped by the unique
\* constraint, and a call made after the Order was stored was rejected with
\* 'Order already exists'.
C8_Witness ==
    \E s, t \in Slots :
        /\ requests[s].pc = "done" /\ requests[s].existed
        /\ requests[s].outcome = "order_exists"
        /\ requests[t].pc = "done" /\ ~requests[t].existed
        /\ requests[t].outcome = "integrity_error"
        /\ requests[t].appointment_id = requests[s].appointment_id
        /\ \E o \in OrderIds :
              orders[o].appointment_id = requests[t].appointment_id

-----------------------------------------------------------------------------
(* Decimal arithmetic of update_order_discount *)

\* The precision of the decimal context: the division order.tax /
\* order.subtotal and the product with it are rounded, half even, to this
\* many significant digits.
DecimalPrecision == 28

RECURSIVE Digits(_)
\* The number of decimal digits of x >= 0 (0 for x = 0).
Digits(x) == IF x = 0 THEN 0 ELSE 1 + Digits(x \div 10)

RECURSIVE Pow10(_)
Pow10(m) == IF m = 0 THEN 1 ELSE 10 * Pow10(m - 1)

RECURSIVE ShiftMod(_, _, _)
\* (r * 10^k) mod d.
ShiftMod(k, r, d) == IF k = 0 THEN r % d ELSE ShiftMod(k - 1, (r * 10) % d, d)

RECURSIVE LeadingShift(_, _)
\* The least z with n * 10^z >= d, for 0 < n.
LeadingShift(n, d) == IF n >= d THEN 0 ELSE 1 + LeadingShift(n * 10, d)

\* (subtotal_after_discount * (tax / subtotal)).quantize(Decimal("0.01")),
\* lines 256-261, amounts in 1/Scale dollars, 0 <= tax <= subtotal.
\* The quotient is q = round(tax * 10^k / subtotal) with DecimalPrecision
\* digits.  The result is the half-even rounding of the exact value
\* sad * tax / subtotal unless that value is a tie and the rounding of q
\* moved the product off the tie by more than the product's own rounding
\* absorbs: then the direction in which q was rounded decides.
RecalculatedTax(subtotal, tax, sad) ==
    IF subtotal <= 0 THEN 0
    ELSE
    LET exact == RoundHalfEven(sad * tax, subtotal)
        tie   == /\ (2 * sad * tax) % subtotal = 0
                 /\ ((2 * sad * tax) \div subtotal) % 2 = 1
    IN  IF ~tie THEN exact
        ELSE
        LET T    == (sad * tax) \div subtotal
            k    == (DecimalPrecision - 1) + LeadingShift(tax, subtotal)
            rem  == ShiftMod(k, tax, subtotal)
            last_digit == (ShiftMod(k - 1, tax, subtotal) * 10) \div subtotal
            up   == IF 2 * rem > subtotal THEN 1
                    ELSE IF 2 * rem < subtotal THEN 0
                    ELSE last_digit % 2
            m    == k + Digits(T) - DecimalPrecision
            dev  == up * subtotal - rem
            absdev == IF dev < 0 THEN -dev ELSE dev
            \* 2 * sad * absdev > 10^m * subtotal
            moved == /\ m < 10
                     /\ \/ (2 * sad * absdev) \div subtotal > Pow10(m)
                        \/ /\ (2 * sad * absdev) \div subtotal = Pow10(m)
                           /\ (2 * sad * absdev) % subtotal > 0
        IN  IF rem = 0 THEN exact
            ELSE IF moved THEN (IF dev > 0 THEN T + 1 ELSE T)
            ELSE exact

-----------------------------------------------------------------------------
(* The order engine, one handler per step *)

\* Bound: the largest discount_value and tip_amount of a request, in
\* 1/Scale (a percentage above 100 and a dollar value above every subtotal).
MaxValue == 15000

\* Bound: the orders the order engine creates.
MaxOrders == 1

\* discount_type of OrderUpdateDiscount: None ("none"), "percentage", "dollar".
DiscountTypes == {"none", "percentage", "dollar"}

\* discount_value of OrderUpdateDiscount: None or a Decimal >= 0 with two
\* decimal places.
DiscountValues == {NoDiscount, 0, 2000, MaxValue}

\* tip_amount of add_tip_to_order.
TipAmounts == {0, 500}

\* Mutant: the discount is left out of the total.
OrderTotal_IgnoresDiscount(subtotal, discount_amount, tax, tip) ==
    subtotal + tax + tip

\* lines 183-184 and 252, 264: (subtotal - discount) + tax + tip.
OrderTotal(subtotal, discount_amount, tax, tip) ==
    (subtotal - discount_amount) + tax + tip

\* Mutant: the discount is not clamped to the subtotal.
DiscountAmount_NoClamp(subtotal, discount_type, discount_value) ==
    IF discount_type # "none" /\ discount_value # NoDiscount
    THEN IF discount_type = "percentage"
         THEN RoundHalfEven(subtotal * discount_value, 100 * Scale)
         ELSE discount_value
    ELSE 0

\* lines 235-247: the discount amount of a (type, value) pair, clamped to
\* the subtotal; None and 0 are both falsy.
DiscountAmount(subtotal, discount_type, discount_value) ==
    IF discount_type # "none" /\ discount_value # NoDiscount
                              /\ discount_value # 0
    THEN LET amount == IF discount_type = "percentage"
                       THEN RoundHalfEven(subtotal * discount_value, 100 * Scale)
                       ELSE discount_value
         IN  IF amount < subtotal THEN amount ELSE subtotal
    ELSE 0

\* Mutant: the tax is recalculated before the new discount is applied.
DiscountedOrder_TaxBeforeDiscount(ord, discount_type, discount_value) ==
    LET discount_amount == DiscountAmount(ord.subtotal, discount_type,
                                          discount_value)
        tax == RecalculatedTax(ord.subtotal, ord.tax,
                               ord.subtotal - ord.discount_amount)
    IN  [ord EXCEPT !.discount_type   = discount_type,
                    !.discount_value  = discount_value,
                    !.discount_amount = discount_amount,
                    !.tax             = tax,
                    !.total = OrderTotal(ord.subtotal, discount_amount, tax,
                                         ord.tip)]

\* lines 230-264: the Order row after the update.
DiscountedOrder(ord, discount_type, discount_value) ==
    LET discount_amount == DiscountAmount(ord.subtotal, discount_type,
                                          discount_value)
        tax == RecalculatedTax(ord.subtotal, ord.tax,
                               ord.subtotal - discount_amount)
    IN  [ord EXCEPT !.discount_type   = discount_type,
                    !.discount_value  = discount_value,
                    !.discount_amount = discount_amount,
                    !.tax             = tax,
                    !.total = OrderTotal(ord.subtotal, discount_amount, tax,
                                         ord.tip)]

\* OrderService.update_order_discount.
update_order_discount(order_id, business_id, discount_type, discount_value) ==
    /\ IF OrderFound(order_id, business_id)
       THEN /\ orders' = [orders EXCEPT ![order_id] =
                            DiscountedOrder(@, discount_type, discount_value)]
            /\ last' = [op |-> "update_discount", outcome |-> "ok",
                        provider |-> FALSE]
       ELSE /\ orders' = orders
            /\ last' = [op |-> "update_discount",
                        outcome |-> "order_not_found", provider |-> FALSE]
    /\ UNCHANGED <<time_blocks, appointments, payments, devices, checkouts, now, requests,
                   tax_rates>>

\* lines 181-184: the Order row after the tip is set.
TippedOrder(ord, tip_amount) ==
    [ord EXCEPT !.tip = tip_amount,
                !.total = OrderTotal(ord.subtotal, ord.discount_amount,
                                     ord.tax, tip_amount)]

\* OrderService.add_tip_to_order: the order is looked up by id alone.
add_tip_to_order(order_id, tip_amount) ==
    /\ IF order_id \in OrderIds
       THEN /\ orders' = [orders EXCEPT ![order_id] =
                            TippedOrder(@, tip_amount)]
            /\ last' = [op |-> "add_tip", outcome |-> "ok", provider |-> FALSE]
       ELSE /\ orders' = orders
            /\ last' = [op |-> "add_tip", outcome |-> "order_not_found",
                        provider |-> FALSE]
    /\ UNCHANGED <<time_blocks, appointments, payments, devices, checkouts, now, requests,
                   tax_rates>>

\* lines 56-73 and the INSERT of line 120, for a call that runs alone.
CreateOutcome(appointment_id, business_id, tax_rate) ==
    IF ~AppointmentFound(appointment_id, business_id)
    THEN "appointment_not_found"
    ELSE IF OrderExistsFor(appointment_id) THEN "order_exists"
    ELSE IF UniqueViolation(NewOrder(appointment_id, business_id, tax_rate, now))
    THEN "integrity_error"
    ELSE "ok"

\* OrderService.create_order_from_appointment, run without interleaving.
create_order_from_appointment(appointment_id, business_id, tax_rate) ==
    LET out == CreateOutcome(appointment_id, business_id, tax_rate)
    IN  /\ out = "ok" => Len(orders) < MaxOrders
        /\ last' = [op |-> "create_order", outcome |-> out, provider |-> FALSE]
        /\ IF out = "ok"
           THEN /\ orders' = Append(orders, NewOrder(appointment_id,
                                        business_id, tax_rate, now))
                /\ tax_rates' = Append(tax_rates, tax_rate)
           ELSE UNCHANGED <<orders, tax_rates>>
        /\ UNCHANGED <<time_blocks, appointments, payments, devices, checkouts, now,
                       requests>>

\* A call that fails its lookups has the same effect whatever its other
\* arguments are: one choice of them stands for all.
CreateOrder ==
    \E a \in DOMAIN appointments, b \in Businesses :
        \E rate \in IF CreateOutcome(a, b, 0) = "ok" THEN CreateRates ELSE {0} :
            create_order_from_appointment(a, b, rate)

DiscountCalls ==
    (1..(Len(orders) + 1)) \X Businesses \X DiscountTypes \X DiscountValues

UpdateDiscount ==
    \E o \in 1..(Len(orders) + 1), b \in Businesses :
        \E t \in IF OrderFound(o, b) THEN DiscountTypes ELSE {"none"},
           v \in IF OrderFound(o, b) THEN DiscountValues ELSE {NoDiscount} :
            update_order_discount(o, b, t, v)

AddTip ==
    \E o \in 1..(Len(orders) + 1) :
        \E tip \in IF o \in OrderIds THEN TipAmounts ELSE {0} :
            add_tip_to_order(o, tip)

NextOrder == CreateOrder \/ UpdateDiscount \/ AddTip

SpecOrder == InitCreate /\ [][NextOrder]_vars

-----------------------------------------------------------------------------
(* Properties of the order engine *)

\* C9: in every committed state each Order has
\* total = subtotal - discount_amount + tax + tip, and a discount update
\* either applies discount_type, discount_value, discount_amount, tax and
\* total together, or, when the order is not found for the business, changes
\* nothing.
C9_TotalsConsistent ==
    /\ [](\A o \in OrderIds :
             orders[o].total = orders[o].subtotal - orders[o].discount_amount
                               + orders[o].tax + orders[o].tip)
    /\ [][\A c \in DiscountCalls :
            ( /\ last'.op = "update_discount"
              /\ update_order_discount(c[1], c[2], c[3], c[4]) ) =>
              IF c[1] \in OrderIds /\ orders[c[1]].business_id = c[2]
              THEN LET old == orders[c[1]]
                       new == orders'[c[1]]
                   IN  /\ new.discount_type = c[3]
                       /\ new.discount_value = c[4]
                       /\ new.discount_amount =
                            DiscountAmount(old.subtotal, c[3], c[4])
                       /\ new.tax =
                            RecalculatedTax(old.subtotal, old.tax,
                                old.subtotal - new.discount_amount)
                       /\ new.total = old.subtotal - new.discount_amount
                                      + new.tax + old.tip
                       /\ new.subtotal = old.subtotal /\ new.tip = old.tip
                       /\ \A o \in OrderIds \ {c[1]} : orders'[o] = orders[o]
              ELSE orders' = orders]_vars

\* An Order of 80.00 at 8% carries a tip of 5.00 and a dollar discount of
\* 20.00, its total is 69.80, and the last discount update, by the other
\* business, did not find it.
C9_Witness ==
    /\ last.op = "update_discount" /\ last.outcome = "order_not_found"
    /\ \E o \in OrderIds :
          /\ orders[o].subtotal = 8000
          /\ orders[o].discount_type = "dollar"
          /\ orders[o].discount_value = 2000
          /\ orders[o].discount_amount = 2000
          /\ orders[o].tax = 480
          /\ orders[o].tip = 500
          /\ orders[o].total = 6980

\* C10: after any sequence of discount updates on an Order with
\* subtotal > 0, the stored tax is the creation tax rate applied to the
\* discounted subtotal, rounded to two decimals: the rate recovered from
\* the stored tax and subtotal is the rate the Order was created with.
C10_TaxAtCreationRate ==
    \A o \in OrderIds :
        orders[o].subtotal > 0 =>
            orders[o].tax =
                RoundHalfEven((orders[o].subtotal - orders[o].discount_amount)
                                  * tax_rates[o], RateUnit)

\* amount is exact rounded to a whole number of 1/Scale, whatever the
\* rule for ties: exact = num / den, den > 0.
Rounded(amount, num, den) ==
    /\ 2 * (amount * den - num) <= den
    /\ 2 * (num - amount * den) <= den

\* The update_order_discount steps that find their order.
UpdatesFound(c) ==
    /\ last'.op = "update_discount"
    /\ update_order_discount(c[1], c[2], c[3], c[4])
    /\ c[1] \in OrderIds
    /\ orders[c[1]].business_id = c[2]

\* Tax and total as C11 states them, from the old row and the new discount.
C11_TaxAndTotal(old, new) ==
    /\ IF old.subtotal > 0
       THEN Rounded(new.tax, (old.subtotal - new.discount_amount) * old.tax,
                    old.subtotal)
       ELSE new.tax = 0
    /\ new.total = (old.subtotal - new.discount_amount) + new.tax + old.tip

\* The example: subtotal 80.00, tax 6.40, tip 5.00, dollar discount 20.00.
C11_Example(c, old, new) ==
    ( /\ old.subtotal = 8000 /\ old.tax = 640 /\ old.tip = 500
      /\ c[3] = "dollar" /\ c[4] = 2000 )
    => /\ new.discount_amount = 2000
       /\ new.tax = 480
       /\ new.total = 6980

\* C11 as stated: update_order_discount computes discount_amount
\* (percentage: round(subtotal * value / 100, 2); dollar: round(value, 2);
\* 0 when type or value is absent), then tax = round((subtotal -
\* discount_amount) * (stored tax / stored subtotal), 2), rate 0 when the
\* subtotal is 0, then total = (subtotal - discount_amount) + tax + tip;
\* 80.00 / 6.40 / 5.00 with a dollar discount of 20.00 gives 20.00, 4.80 and
\* 69.80.
C11_DiscountFormula ==
    [][\A c \in DiscountCalls :
          UpdatesFound(c) =>
            LET old == orders[c[1]]
                new == orders'[c[1]]
            IN  /\ new.discount_amount =
                     IF c[3] = "none" \/ c[4] = NoDiscount THEN 0
                     ELSE IF c[3] = "percentage"
                          THEN RoundHalfEven(old.subtotal * c[4], 100 * Scale)
                          ELSE c[4]
                /\ C11_TaxAndTotal(old, new)
                /\ C11_Example(c, old, new)]_vars

\* C11, amended: the same computation with the discount_amount of either
\* type clamped to at most the subtotal before tax and total are computed.
C11_DiscountFormulaClamped ==
    [][\A c \in DiscountCalls :
          UpdatesFound(c) =>
            LET old == orders[c[1]]
                new == orders'[c[1]]
                amount == IF c[3] = "none" \/ c[4] = NoDiscount THEN 0
                          ELSE IF c[3] = "percentage"
                               THEN RoundHalfEven(old.subtotal * c[4],
                                                  100 * Scale)
                               ELSE c[4]
            IN  /\ new.discount_amount =
                     IF amount > old.subtotal THEN old.subtotal ELSE amount
                /\ C11_TaxAndTotal(old, new)
                /\ C11_Example(c, old, new)]_vars

\* The example has happened: the Order of 80.00 created at 8% with a tip of
\* 5.00 has just taken a dollar discount of 20.00.
C11_Witness ==
    /\ last.op = "update_discount" /\ last.outcome = "ok"
    /\ \E o \in OrderIds :
          /\ tax_rates[o] = 800
          /\ orders[o].subtotal = 8000 /\ orders[o].tip = 500
          /\ orders[o].discount_type = "dollar"
          /\ orders[o].discount_value = 2000
          /\ orders[o].discount_amount = 2000
          /\ orders[o].tax = 480
          /\ orders[o].total = 6980

\* C12: after update_order_discount with any non-negative discount_value,
\* 0 <= discount_amount <= subtotal; a percentage above 100 or a dollar
\* value above the subtotal is clamped to the subtotal, which gives
\* subtotal_after_discount = 0, tax = 0 and total = tip.
C12_DiscountClamped ==
    /\ [](\A o \in OrderIds :
             /\ 0 <= orders[o].discount_amount
             /\ orders[o].discount_amount <= orders[o].subtotal)
    /\ [][\A c \in DiscountCalls :
            ( /\ UpdatesFound(c)
              /\ \/ c[3] = "percentage" /\ c[4] > 100 * Scale
                 \/ c[3] = "dollar" /\ c[4] > orders[c[1]].subtotal )
            => /\ orders'[c[1]].discount_amount = orders[c[1]].subtotal
               /\ orders'[c[1]].tax = 0
               /\ orders'[c[1]].total = orders[c[1]].tip]_vars

\* A percentage of 150 has just been applied to an Order of 80.00 created
\* at 8% that carries a tip: the discount is 80.00, the total is the tip.
C12_Witness ==
    /\ last.op = "update_discount" /\ last.outcome = "ok"
    /\ \E o \in OrderIds :
          /\ tax_rates[o] = 800
          /\ orders[o].subtotal = 8000
          /\ orders[o].discount_type = "percentage"
          /\ orders[o].discount_value = 150 * Scale
          /\ orders[o].discount_amount = 8000
          /\ orders[o].tax = 0
          /\ orders[o].tip = 500
          /\ orders[o].total = 500

CreateCalls == (DOMAIN appointments) \X Businesses \X CreateRates

\* C13: create_order_from_appointment produces an Order with subtotal = the
\* price of the appointment's first linked service (0.00 when it has none),
\* tax = subtotal * tax_rate rounded to 2 decimals, tip = 0,
\* discount_amount = 0, total = subtotal + tax, order_status 'pending' and
\* payment_status 'unpaid'; it fails without creating anything when the
\* appointment does not exist for the business.
C13_CreatedOrder ==
    [][\A c \in CreateCalls :
          ( /\ last'.op = "create_order"
            /\ create_order_from_appointment(c[1], c[2], c[3]) )
          => IF appointments[c[1]].business_id # c[2]
             THEN /\ last'.outcome = "appointment_not_found"
                  /\ orders' = orders
             ELSE last'.outcome = "ok" =>
                  LET new == orders'[Len(orders')]
                      price == appointments[c[1]].price
                  IN  /\ Len(orders') = Len(orders) + 1
                      /\ \A o \in OrderIds : orders'[o] = orders[o]
                      /\ new.appointment_id = c[1]
                      /\ new.business_id = c[2]
                      /\ new.subtotal = IF price = NoService THEN 0 ELSE price
                      /\ Rounded(new.tax, new.subtotal * c[3], RateUnit)
                      /\ new.tip = 0
                      /\ new.discount_amount = 0
                      /\ new.total = new.subtotal + new.tax
                      /\ new.order_status = "pending"
                      /\ new.payment_status = "unpaid"]_vars

\* An Order of 80.00 has just been created at 8%: tax 6.40, total 86.40.
C13_Witness ==
    /\ last.op = "create_order" /\ last.outcome = "ok"
    /\ \E o \in OrderIds :
          /\ tax_rates[o] = 800
          /\ orders[o].subtotal = 8000 /\ orders[o].tax = 640
          /\ orders[o].total = 8640 /\ orders[o].tip = 0
          /\ orders[o].payment_status = "unpaid"

-----------------------------------------------------------------------------
(* Scheduling: staff, appointments and time blocks *)

\* Bounds: a start time is one of 0..MaxStart, a duration one of
\* 1..MaxDuration, in units of the shortest booking.
MaxStart == 2
MaxDuration == 2

\* Bound: the time blocks created, each by its own request.
MaxBlocks == 2

\* cast(<datetime>, Date): the calendar day of a time, DayLength units a day.
DayLength == 2

DateOf(t) == t \div DayLength

\* An optional argument that is None.
NotGiven == -1

\* business_users with their role: two active groomers, a deactivated
\* groomer and an active member of role "staff" in business 1, one active
\* groomer in business 2.  `name` is the rank in (first_name, last_name)
\* order.
StaffIds == 1..5

StaffRow(s) ==
    CASE s = 1 -> [business_id |-> 1, role |-> "groomer", is_active |-> TRUE,
                   name |-> 2]
      [] s = 2 -> [business_id |-> 1, role |-> "groomer", is_active |-> TRUE,
                   name |-> 1]
      [] s = 3 -> [business_id |-> 1, role |-> "groomer", is_active |-> FALSE,
                   name |-> 3]
      [] s = 4 -> [business_id |-> 1, role |-> "staff",
                   is_active |-> TRUE, name |-> 4]
      [] s = 5 -> [business_id |-> 2, role |-> "groomer", is_active |-> TRUE,
                   name |-> 5]

\* BusinessUser.id == staff_id, business_id == business_id, is_active
\* (time_block_service.py:105-115, appointment_service.py:293-303).
ActiveStaffFound(staff_id, business_id) ==
    /\ staff_id \in StaffIds
    /\ StaffRow(staff_id).business_id = business_id
    /\ StaffRow(staff_id).is_active

TimeBlockIds == 1..Len(time_blocks)

AppointmentIds == DOMAIN appointments

\* Mutant: an item that touches the proposed interval counts as overlapping.
Overlaps_Touching(existing_start, existing_duration, start_datetime, end_datetime) ==
    /\ existing_start <= end_datetime
    /\ existing_start + existing_duration >= start_datetime

\* The overlap filter of both queries (lines 45-48 and 65-68):
\* existing.start < new_end AND existing.start + existing.duration > new_start.
Overlaps(existing_start, existing_duration, start_datetime, end_datetime) ==
    /\ existing_start < end_datetime
    /\ existing_start + existing_duration > start_datetime

\* check_schedule_conflicts: the overlapping appointments and blocks of the
\* staff member in the business, the block exclude_block_id left out.  The
\* message names each of them; it is None when there is none.
check_schedule_conflicts(business_id, staff_id, start_datetime, duration_minutes, exclude_block_id) ==
    LET end_datetime == start_datetime + duration_minutes
        conflicting_appointments ==
            {a \in AppointmentIds :
                /\ appointments[a].business_id = business_id
                /\ appointments[a].staff_id = staff_id
                /\ Overlaps(appointments[a].appointment_datetime,
                            appointments[a].duration_minutes,
                            start_datetime, end_datetime)}
        conflicting_blocks ==
            {k \in TimeBlockIds :
                /\ time_blocks[k].business_id = business_id
                /\ time_blocks[k].staff_id = staff_id
                /\ Overlaps(time_blocks[k].block_datetime,
                            time_blocks[k].duration_minutes,
                            start_datetime, end_datetime)
                /\ exclude_block_id # Null => k # exclude_block_id}
        conflicts == {<<"appointment", a>> : a \in conflicting_appointments}
                     \cup {<<"block", k>> : k \in conflicting_blocks}
    IN  [has_conflict |-> conflicts # {}, conflicts |-> conflicts]

\* The TimeBlock row of lines 134-141.
NewTimeBlock(business_id, staff_id, block_datetime, duration_minutes) ==
    [ business_id      |-> business_id,
      staff_id         |-> staff_id,
      block_datetime   |-> block_datetime,
      duration_minutes |-> duration_minutes ]

-----------------------------------------------------------------------------
(* create_time_block, its conflict read and its commit as separate steps *)

BlockSlots == 1..MaxBlocks

IdleBlockRequest ==
    [ pc |-> "idle", business_id |-> Null, staff_id |-> Null,
      block_datetime |-> 0, duration_minutes |-> 0,
      has_conflict |-> FALSE, conflicts |-> {}, outcome |-> "none",
      block_id |-> Null, seen |-> 0 ]

\* lines 105-125: the staff check and the conflict read.  `seen` records how
\* many rows time_blocks had when the read ran.
BlockBegin(slot, business_id, staff_id, block_datetime, duration_minutes) ==
    LET found == ActiveStaffFound(staff_id, business_id)
        check == check_schedule_conflicts(business_id, staff_id,
                     block_datetime, duration_minutes, Null)
    IN  /\ requests[slot].pc = "idle"
        /\ requests' = [requests EXCEPT ![slot] =
              [ pc               |-> IF found THEN "commit" ELSE "done",
                business_id      |-> business_id,
                staff_id         |-> staff_id,
                block_datetime   |-> block_datetime,
                duration_minutes |-> duration_minutes,
                has_conflict     |-> found /\ check.has_conflict,
                conflicts        |-> IF found THEN check.conflicts ELSE {},
                outcome          |-> IF found THEN "none" ELSE "staff_not_found",
                block_id         |-> Null,
                seen             |-> Len(time_blocks) ]]
        /\ UNCHANGED <<time_blocks, appointments, orders, payments, devices,
                       checkouts, now, last, tax_rates>>

\* Mutant: the conflicts are read again when the row is inserted.
BlockCommit_ReadAtCommit(slot) ==
    LET r == requests[slot]
        check == check_schedule_conflicts(r.business_id, r.staff_id,
                     r.block_datetime, r.duration_minutes, Null)
    IN  /\ r.pc = "commit"
        /\ time_blocks' = Append(time_blocks,
               NewTimeBlock(r.business_id, r.staff_id, r.block_datetime,
                            r.duration_minutes))
        /\ requests' = [requests EXCEPT ![slot] =
               [@ EXCEPT !.pc = "done", !.outcome = "ok",
                         !.block_id = Len(time_blocks) + 1,
                         !.has_conflict = check.has_conflict,
                         !.conflicts = check.conflicts]]
        /\ UNCHANGED <<appointments, orders, payments, devices, checkouts,
                       now, last, tax_rates>>

\* lines 134-152: the row is inserted and the result of the earlier read is
\* returned with it.
BlockCommit(slot) ==
    LET r == requests[slot]
    IN  /\ r.pc = "commit"
        /\ time_blocks' = Append(time_blocks,
               NewTimeBlock(r.business_id, r.staff_id, r.block_datetime,
                            r.duration_minutes))
        /\ requests' = [requests EXCEPT ![slot] =
               [@ EXCEPT !.pc = "done", !.outcome = "ok",
                         !.block_id = Len(time_blocks) + 1]]
        /\ UNCHANGED <<appointments, orders, payments, devices, checkouts,
                       now, last, tax_rates>>

-----------------------------------------------------------------------------
(* update_time_block *)

\* get_time_block_by_id: TimeBlock.id == block_id, business_id == business_id.
TimeBlockFound(block_id, business_id) ==
    block_id \in TimeBlockIds /\ time_blocks[block_id].business_id = business_id

\* The has_conflict and conflict_message a scheduling handler returns.
NoConflict == [has_conflict |-> FALSE, conflicts |-> {}]

ScheduleResult(op, outcome, check) ==
    [ op |-> op, outcome |-> outcome, provider |-> FALSE,
      has_conflict |-> check.has_conflict, conflicts |-> check.conflicts ]

\* Mutant: the block's own row is not excluded from the conflict read.
ExcludedBlock_None(block_id) == Null

\* line 220: exclude_block_id = block_id.
ExcludedBlock(block_id) == block_id

\* update_time_block (lines 210-243); reason and description do not bear on
\* the schedule and are left out of the row.
update_time_block(business_id, block_id, block_datetime, duration_minutes) ==
    /\ IF TimeBlockFound(block_id, business_id)
       THEN LET block == time_blocks[block_id]
                new_datetime == IF block_datetime # NotGiven
                                THEN block_datetime ELSE block.block_datetime
                new_duration == IF duration_minutes # NotGiven
                                THEN duration_minutes
                                ELSE block.duration_minutes
                check == check_schedule_conflicts(business_id, block.staff_id,
                             new_datetime, new_duration,
                             ExcludedBlock(block_id))
            IN  /\ time_blocks' = [time_blocks EXCEPT ![block_id] =
                       [@ EXCEPT !.block_datetime = new_datetime,
                                 !.duration_minutes = new_duration]]
                /\ last' = ScheduleResult("update_time_block", "ok", check)
       ELSE /\ time_blocks' = time_blocks
            /\ last' = ScheduleResult("update_time_block", "block_not_found",
                                      NoConflict)
    /\ UNCHANGED <<appointments, orders, payments, devices, checkouts, now,
                   requests, tax_rates>>

-----------------------------------------------------------------------------
(* Appointments *)

\* pets: one per business, each with its customer.
PetIds == 1..2

PetRow(p) == [business_id |-> p, customer_id |-> p + 10]

\* services: two of business 1, one of business 2, with their prices.
ServiceIds == 1..3

ServiceRow(v) ==
    CASE v = 1 -> [business_id |-> 1, price |-> 8000]
      [] v = 2 -> [business_id |-> 2, price |-> 2500]
      [] v = 3 -> [business_id |-> 1, price |-> 2500]

\* The Appointment row of appointment_service.py:342-354 with its services;
\* `price` is the price of the first linked service, as
\* create_order_from_appointment reads it.
NewAppointment(business_id, pet_id, staff_id, services, appointment_datetime, duration_minutes) ==
    [ business_id          |-> business_id,
      customer_id          |-> PetRow(pet_id).customer_id,
      pet_id               |-> pet_id,
      staff_id             |-> staff_id,
      appointment_datetime |-> appointment_datetime,
      duration_minutes     |-> duration_minutes,
      status               |-> "scheduled",
      services             |-> services,
      price                |-> IF services = << >> THEN NoService
                               ELSE ServiceRow(services[1]).price ]

-----------------------------------------------------------------------------
(* Time blocks against a fixed set of appointments *)

\* Appointments booked earlier: groomer 1 of business 1 at [1, 2), the
\* groomer of business 2 at [0, 2).
BlockAppointments ==
    << NewAppointment(1, 1, 1, <<1>>, 1, 1),
       NewAppointment(2, 2, 5, << >>, 0, 2) >>

Starts == 0..MaxStart

Durations == 1..MaxDuration

InitBlocks ==
    /\ appointments = BlockAppointments
    /\ orders = << >>
    /\ payments = << >>
    /\ devices = DeviceIds
    /\ checkouts = 0
    /\ now = 1
    /\ last = Idle
    /\ requests = [s \in BlockSlots |-> IdleBlockRequest]
    /\ tax_rates = << >>
    /\ time_blocks = << >>

\* A request takes the first free slot; a request that fails its staff check
\* has the same effect whatever its interval is.
BeginBlock ==
    \E slot \in BlockSlots, b \in Businesses, staff \in StaffIds :
        /\ \A t \in 1..(slot - 1) : requests[t].pc # "idle"
        /\ \E start \in IF ActiveStaffFound(staff, b) THEN Starts ELSE {0},
              d \in IF ActiveStaffFound(staff, b) THEN Durations ELSE {1} :
               BlockBegin(slot, b, staff, start, d)

CommitBlock == \E slot \in BlockSlots : BlockCommit(slot)

UpdateCalls ==
    (1..(Len(time_blocks) + 1)) \X Businesses
        \X (Starts \cup {NotGiven}) \X (Durations \cup {NotGiven})

UpdateBlock ==
    \E k \in 1..(Len(time_blocks) + 1), b \in Businesses :
        \E start \in IF TimeBlockFound(k, b)
                      THEN Starts \cup {NotGiven} ELSE {NotGiven},
           d \in IF TimeBlockFound(k, b)
                  THEN Durations \cup {NotGiven} ELSE {NotGiven} :
            update_time_block(b, k, start, d)

NextBlocks == BeginBlock \/ CommitBlock

SpecBlocks == InitBlocks /\ [][NextBlocks]_vars

-----------------------------------------------------------------------------
(* Properties of the conflict check and of concurrent block creation *)

Proposals == Businesses \X StaffIds \X Starts \X Durations

\* The stored appointments and time blocks as (business, staff, start,
\* duration, item) tuples.
StoredItems ==
    { <<appointments[a].business_id, appointments[a].staff_id,
        appointments[a].appointment_datetime,
        appointments[a].duration_minutes, <<"appointment", a>> >> :
          a \in AppointmentIds }
    \cup
    { <<time_blocks[k].business_id, time_blocks[k].staff_id,
        time_blocks[k].block_datetime, time_blocks[k].duration_minutes,
        <<"block", k>> >> : k \in TimeBlockIds }

\* C14: for any stored appointments and time blocks and any proposed
\* (business_id, staff_id, start, duration_minutes), has_conflict is True if
\* and only if some stored item of the same business and staff member has
\* existing.start < start + duration and existing.start + existing.duration
\* > start; an item that ends at the proposed start or starts at the
\* proposed end never counts; with no overlap the result is (False, None).
C14_ConflictIffOverlap ==
    \A p \in Proposals :
        LET res == check_schedule_conflicts(p[1], p[2], p[3], p[4], Null)
            mine == {i \in StoredItems : i[1] = p[1] /\ i[2] = p[2]}
        IN  /\ res.has_conflict <=>
                 \E i \in mine : i[3] < p[3] + p[4] /\ i[3] + i[4] > p[3]
            /\ \A i \in StoredItems :
                  (i[3] + i[4] = p[3] \/ i[3] = p[3] + p[4])
                      => i[5] \notin res.conflicts
            /\ ~res.has_conflict => res = NoConflict

\* Groomer 1 of business 1 has a block at [0, 1) and the appointment at
\* [1, 2): [0, 2) conflicts with both, [2, 3) touches the appointment and
\* conflicts with nothing, and [0, 2) of groomer 2 conflicts with nothing.
C14_Witness ==
    \E k \in TimeBlockIds :
        /\ time_blocks[k] = NewTimeBlock(1, 1, 0, 1)
        /\ check_schedule_conflicts(1, 1, 0, 2, Null).conflicts
             = {<<"appointment", 1>>, <<"block", k>>}
        /\ check_schedule_conflicts(1, 1, 2, 1, Null) = NoConflict
        /\ check_schedule_conflicts(1, 2, 0, 2, Null) = NoConflict

\* Two create_time_block requests ran concurrently: each made its conflict
\* read before the other committed its row.
Concurrent(s, t) ==
    /\ s # t
    /\ requests[s].outcome = "ok" /\ requests[t].outcome = "ok"
    /\ requests[s].seen < requests[t].block_id
    /\ requests[t].seen < requests[s].block_id

\* Two concurrent requests for overlapping blocks of one staff member.
ConcurrentOverlap(s, t) ==
    /\ Concurrent(s, t)
    /\ requests[s].business_id = requests[t].business_id
    /\ requests[s].staff_id = requests[t].staff_id
    /\ Overlaps(requests[s].block_datetime, requests[s].duration_minutes,
                requests[t].block_datetime,
                requests[t].block_datetime + requests[t].duration_minutes)

\* The overlapping items of request s that were committed before its
\* conflict read.
SeenConflicts(s) ==
    { i[5] : i \in
        { j \in StoredItems :
            /\ j[1] = requests[s].business_id
            /\ j[2] = requests[s].staff_id
            /\ j[3] < requests[s].block_datetime + requests[s].duration_minutes
            /\ j[3] + j[4] > requests[s].block_datetime
            /\ j[5][1] = "block" => j[5][2] <= requests[s].seen } }

-----------------------------------------------------------------------------
(* Time blocks created and updated one request at a time *)

\* create_time_block (lines 105-152) as one transaction.
create_time_block(business_id, staff_id, block_datetime, duration_minutes) ==
    /\ IF ActiveStaffFound(staff_id, business_id)
       THEN LET check == check_schedule_conflicts(business_id, staff_id,
                             block_datetime, duration_minutes, Null)
            IN  /\ Len(time_blocks) < MaxBlocks
                /\ time_blocks' = Append(time_blocks,
                       NewTimeBlock(business_id, staff_id, block_datetime,
                                    duration_minutes))
                /\ last' = ScheduleResult("create_time_block", "ok", check)
       ELSE /\ time_blocks' = time_blocks
            /\ last' = ScheduleResult("create_time_block", "staff_not_found",
                                      NoConflict)
    /\ UNCHANGED <<appointments, orders, payments, devices, checkouts, now,
                   requests, tax_rates>>

BlockCalls == Businesses \X StaffIds \X Starts \X Durations

\* A call that fails its staff check has the same effect whatever its
\* interval is.
CreateBlock ==
    \E b \in Businesses, staff \in StaffIds :
        \E start \in IF ActiveStaffFound(staff, b) THEN Starts ELSE {0},
           d \in IF ActiveStaffFound(staff, b) THEN Durations ELSE {1} :
            create_time_block(b, staff, start, d)

InitSchedule ==
    /\ appointments = BlockAppointments
    /\ orders = << >>
    /\ payments = << >>
    /\ devices = DeviceIds
    /\ checkouts = 0
    /\ now = 1
    /\ last = Idle
    /\ requests = << >>
    /\ tax_rates = << >>
    /\ time_blocks = << >>

NextSchedule == CreateBlock \/ UpdateBlock

SpecSchedule == InitSchedule /\ [][NextSchedule]_vars

\* C17: update_time_block checks conflicts for the block's effective new
\* interval (the given block_datetime and duration_minutes, each falling
\* back to the stored value when omitted) and excludes the block's own row:
\* the block is never reported as conflicting with itself, every other
\* overlapping appointment or block of the same staff member is reported,
\* and the update is applied whatever the result.
C17_UpdateExcludesOwnRow ==
    [][ \A c \in UpdateCalls :
          ( /\ last'.op = "update_time_block"
            /\ TimeBlockFound(c[1], c[2])
            /\ update_time_block(c[2], c[1], c[3], c[4]) )
          => LET block == time_blocks[c[1]]
                 start == IF c[3] = NotGiven THEN block.block_datetime
                          ELSE c[3]
                 d     == IF c[4] = NotGiven THEN block.duration_minutes
                          ELSE c[4]
                 others == { i[5] : i \in
                     { j \in StoredItems :
                         /\ j[1] = block.business_id
                         /\ j[2] = block.staff_id
                         /\ j[5] # <<"block", c[1]>>
                         /\ j[3] < start + d
                         /\ j[3] + j[4] > start } }
             IN  /\ last'.outcome = "ok"
                 /\ last'.conflicts = others
                 /\ last'.has_conflict <=> others # {}
                 /\ <<"block", c[1]>> \notin last'.conflicts
                 /\ time_blocks' = [time_blocks EXCEPT ![c[1]] =
                        NewTimeBlock(block.business_id, block.staff_id,
                                     start, d)] ]_vars

\* Block 2 of groomer 1 was moved onto [0, 2), over block 1 and the
\* appointment, and the update was applied with a warning that names both
\* and not block 2 itself.
C17_Witness ==
    /\ last.op = "update_time_block" /\ last.outcome = "ok"
    /\ Len(time_blocks) = 2
    /\ time_blocks[2] = NewTimeBlock(1, 1, 0, 2)
    /\ time_blocks[1].staff_id = 1
    /\ last.conflicts = {<<"appointment", 1>>, <<"block", 1>>}

-----------------------------------------------------------------------------
(* Appointment creation and the daily schedule *)

MaxAppointments == 3

MaxDailyBlocks == 1

\* business_user_roles and appointment_statuses as the migrations seed them.
RoleNames == {"owner", "staff", "groomer"}

AppointmentStatusNames ==
    {"scheduled", "checked_in", "in_progress", "completed", "cancelled",
     "no_show"}

Range(seq) == {seq[i] : i \in DOMAIN seq}

\* Service.id.in_(service_ids) and Service.business_id == business_id.
ServicesFound(service_ids, business_id) ==
    {v \in ServiceIds : v \in Range(service_ids)
                          /\ ServiceRow(v).business_id = business_id}

RECURSIVE ById(_)
ById(S) ==
    IF S = {} THEN << >>
    ELSE LET v == CHOOSE v \in S : \A w \in S : v <= w
         IN  <<v>> \o ById(S \ {v})

\* The checks of create_appointment in their order (lines 273-339).
CreateAppointmentOutcome(business_id, pet_id, staff_id, service_ids) ==
    IF ~(pet_id \in PetIds /\ PetRow(pet_id).business_id = business_id)
    THEN "pet_not_found"
    ELSE IF ~ActiveStaffFound(staff_id, business_id)
    THEN "staff_not_found"
    ELSE IF "scheduled" \notin AppointmentStatusNames
    THEN "status_not_found"
    ELSE IF /\ service_ids # << >>
            /\ Cardinality(ServicesFound(service_ids, business_id))
                 # Len(service_ids)
    THEN "services_not_found"
    ELSE "ok"

\* The fields CreateAppointmentResponse requires (schemas/appointment.py
\* lines 193-206, those without a default) and the keyword arguments the
\* endpoint passes (api/appointments.py lines 112-125).
CreateAppointmentResponseRequired ==
    {"id", "pet_id", "pet_name", "customer_id", "customer_name", "staff_id",
     "staff_name", "appointment_datetime", "duration_minutes", "services",
     "status", "is_confirmed"}

CreateAppointmentResponsePassed ==
    {"id", "pet_id", "pet_name", "customer_id", "customer_name", "staff_id",
     "staff_name", "appointment_datetime", "duration_minutes", "services",
     "status", "notes"}

\* The endpoint create_new_appointment: create_appointment commits the row
\* (lines 342-358 of the service), then the response is built; a response
\* that lacks a required field raises and the handler answers 500, an
\* AppointmentServiceError answers 400.  Neither create_appointment nor the
\* response carries a conflict result.  The service lists the model passes
\* find at most one row, so the order of appointment.services is fixed.
create_new_appointment(business_id, pet_id, staff_id, service_ids, appointment_datetime, duration_minutes) ==
    LET outcome == CreateAppointmentOutcome(business_id, pet_id, staff_id,
                                            service_ids)
    IN  /\ IF outcome = "ok"
           THEN /\ Len(appointments) < MaxAppointments
                /\ appointments' = Append(appointments,
                       NewAppointment(business_id, pet_id, staff_id,
                           ById(ServicesFound(service_ids, business_id)),
                           appointment_datetime, duration_minutes))
                /\ last' = ScheduleResult("create_appointment",
                       IF CreateAppointmentResponseRequired
                              \subseteq CreateAppointmentResponsePassed
                       THEN "ok" ELSE "server_error",
                       NoConflict)
           ELSE /\ appointments' = appointments
                /\ last' = ScheduleResult("create_appointment", outcome,
                                          NoConflict)
        /\ UNCHANGED <<time_blocks, orders, payments, devices, checkouts, now,
                       requests, tax_rates>>

ServiceLists == {<< >>, <<1>>, <<2>>, <<1, 1>>}

AppointmentCalls ==
    Businesses \X PetIds \X StaffIds \X ServiceLists \X Starts \X Durations

\* A call that fails a check has the same effect whatever its interval is.
CreateAppointment ==
    \E b \in Businesses, pet \in PetIds, staff \in StaffIds,
       service_ids \in ServiceLists :
        LET ok == CreateAppointmentOutcome(b, pet, staff, service_ids) = "ok"
        IN  \E start \in IF ok THEN Starts ELSE {0},
               d \in IF ok THEN Durations ELSE {1} :
                create_new_appointment(b, pet, staff, service_ids, start, d)

CreateDailyBlock == Len(time_blocks) < MaxDailyBlocks /\ CreateBlock

\* Mutant: the groomers are not filtered by is_active.
IsActiveGroomer_AnyState(s, business_id) ==
    /\ StaffRow(s).business_id = business_id
    /\ StaffRow(s).role = "groomer"

\* Mutant: the staff members are not filtered by role.
IsActiveGroomer_AnyRole(s, business_id) ==
    /\ StaffRow(s).business_id = business_id
    /\ StaffRow(s).is_active

\* The role and activity filter of lines 149-153.
IsActiveGroomer(s, business_id) ==
    /\ StaffRow(s).business_id = business_id
    /\ StaffRow(s).role = "groomer"
    /\ StaffRow(s).is_active

RECURSIVE ByName(_)
ByName(S) ==
    IF S = {} THEN << >>
    ELSE LET g == CHOOSE g \in S :
                      \A h \in S : StaffRow(g).name <= StaffRow(h).name
         IN  <<g>> \o ByName(S \ {g})

\* order_by(appointment_datetime); rows of one datetime are taken by id.
RECURSIVE ByDatetime(_)
ByDatetime(S) ==
    IF S = {} THEN << >>
    ELSE LET a == CHOOSE a \in S : \A c \in S :
                    \/ appointments[a].appointment_datetime
                         < appointments[c].appointment_datetime
                    \/ /\ appointments[a].appointment_datetime
                            = appointments[c].appointment_datetime
                       /\ a <= c
         IN  <<a>> \o ByDatetime(S \ {a})

\* get_daily_time_blocks (time_block_service.py:155-169); no handler calls
\* it.
RECURSIVE ByBlockDatetime(_)
ByBlockDatetime(S) ==
    IF S = {} THEN << >>
    ELSE LET k == CHOOSE k \in S : \A c \in S :
                    \/ time_blocks[k].block_datetime
                         < time_blocks[c].block_datetime
                    \/ /\ time_blocks[k].block_datetime
                            = time_blocks[c].block_datetime
                       /\ k <= c
         IN  <<k>> \o ByBlockDatetime(S \ {k})

get_daily_time_blocks(business_id, target_date) ==
    ByBlockDatetime({k \in TimeBlockIds :
        /\ time_blocks[k].business_id = business_id
        /\ DateOf(time_blocks[k].block_datetime) = target_date})

\* get_daily_appointments (lines 138-240).  An item is named by its kind and
\* id; `warnings` are the appointments the else branch of line 218 logs.
get_daily_appointments(business_id, target_date) ==
    LET groomers == IF "groomer" \in RoleNames
                    THEN ByName({s \in StaffIds :
                                    IsActiveGroomer(s, business_id)})
                    ELSE << >>
        day == ByDatetime({a \in AppointmentIds :
                   /\ appointments[a].business_id = business_id
                   /\ DateOf(appointments[a].appointment_datetime)
                        = target_date})
        keys == Range(groomers)
        items(g) == SelectSeq(day, LAMBDA a : appointments[a].staff_id = g)
    IN  [ date               |-> target_date,
          total_appointments |-> Len(day),
          total_blocks       |-> 0,
          groomers           |->
              [i \in DOMAIN groomers |->
                  [ id           |-> groomers[i],
                    appointments |->
                        [n \in DOMAIN items(groomers[i]) |->
                            <<"appointment", items(groomers[i])[n]>>] ]],
          warnings           |->
              {a \in Range(day) : appointments[a].staff_id \notin keys} ]

\* Appointments booked earlier in business 1: groomer 1 at [1, 2), and
\* groomer 3 at [0, 1), booked before groomer 3 was deactivated.
DailyAppointments ==
    << NewAppointment(1, 1, 1, <<1>>, 1, 1),
       NewAppointment(1, 1, 3, << >>, 0, 1) >>

Dates == {DateOf(t) : t \in Starts}

InitDaily ==
    /\ appointments = DailyAppointments
    /\ orders = << >>
    /\ payments = << >>
    /\ devices = DeviceIds
    /\ checkouts = 0
    /\ now = 1
    /\ last = Idle
    /\ requests = << >>
    /\ tax_rates = << >>
    /\ time_blocks = << >>

NextDaily == CreateAppointment \/ CreateDailyBlock

SpecDaily == InitDaily /\ [][NextDaily]_vars

-----------------------------------------------------------------------------
(* Properties of appointment creation and of the daily schedule *)

\* The stored items of a staff member that overlap [start, start + d).
Overlapping(business_id, staff_id, start, d) ==
    { i[5] : i \in { j \in StoredItems :
                       /\ j[1] = business_id
                       /\ j[2] = staff_id
                       /\ j[3] < start + d
                       /\ j[3] + j[4] > start } }

\* C15: creating an Appointment or a TimeBlock whose interval overlaps an
\* existing appointment or block of the same staff member always succeeds
\* (the row is persisted and the caller gets a success result) and returns
\* has_conflict = True with a message that lists every overlapping item.
C15_OverlapCreatedWithWarning ==
    [][ /\ \A c \in BlockCalls :
            ( /\ last'.op = "create_time_block"
              /\ ActiveStaffFound(c[2], c[1])
              /\ Overlapping(c[1], c[2], c[3], c[4]) # {}
              /\ create_time_block(c[1], c[2], c[3], c[4]) )
            => /\ time_blocks' = Append(time_blocks,
                      NewTimeBlock(c[1], c[2], c[3], c[4]))
               /\ last'.outcome = "ok"
               /\ last'.has_conflict
               /\ last'.conflicts = Overlapping(c[1], c[2], c[3], c[4])
        /\ \A c \in AppointmentCalls :
            ( /\ last'.op = "create_appointment"
              /\ CreateAppointmentOutcome(c[1], c[2], c[3], c[4]) = "ok"
              /\ Overlapping(c[1], c[3], c[5], c[6]) # {}
              /\ create_new_appointment(c[1], c[2], c[3], c[4], c[5], c[6]) )
            => /\ Len(appointments') = Len(appointments) + 1
               /\ last'.outcome = "ok"
               /\ last'.has_conflict
               /\ last'.conflicts = Overlapping(c[1], c[3], c[5], c[6]) ]_vars

\* The active groomer-role staff members of a business.
ActiveGroomers(business_id) ==
    {s \in StaffIds : /\ StaffRow(s).business_id = business_id
                      /\ StaffRow(s).role = "groomer"
                      /\ StaffRow(s).is_active}

\* The appointments of a staff member in a business on a date.
BookedOn(business_id, s, target_date) ==
    {a \in AppointmentIds :
        /\ appointments[a].business_id = business_id
        /\ appointments[a].staff_id = s
        /\ DateOf(appointments[a].appointment_datetime) = target_date}

\* C18: for any business, date and stored data, get_daily_appointments
\* returns exactly the active groomer-role staff members of that business,
\* each exactly once; a groomer with no appointment on the date appears
\* with an empty list, so the number of groomer entries equals the number
\* of active groomers regardless of bookings.
C18_ExactlyActiveGroomers ==
    \A b \in Businesses, date \in Dates :
        LET r == get_daily_appointments(b, date)
        IN  /\ {r.groomers[i].id : i \in DOMAIN r.groomers}
                 = ActiveGroomers(b)
            /\ Len(r.groomers) = Cardinality(ActiveGroomers(b))
            /\ \A i \in DOMAIN r.groomers :
                  BookedOn(b, r.groomers[i].id, date) = {}
                      => r.groomers[i].appointments = << >>

\* Three appointments are stored and on day 0 of business 1 groomer 1 has
\* one and groomer 2 has none: both are listed, groomer 2 first by name.
C18_Witness ==
    LET r == get_daily_appointments(1, 0)
    IN  /\ Len(appointments) = MaxAppointments
        /\ Len(r.groomers) = 2
        /\ r.groomers[1] = [id |-> 2, appointments |-> << >>]
        /\ r.groomers[2].id = 1
        /\ r.groomers[2].appointments # << >>

\* The start of a schedule item.
ItemStart(item) ==
    IF item[1] = "block" THEN time_blocks[item[2]].block_datetime
    ELSE appointments[item[2]].appointment_datetime

\* C19: the daily schedule of each groomer contains both that groomer's
\* appointments and that groomer's time blocks for the target date, merged
\* into one list in start-time order.
C19_BlocksMerged ==
    \A b \in Businesses, date \in Dates :
        LET r == get_daily_appointments(b, date)
        IN  \A i \in DOMAIN r.groomers :
              LET g == r.groomers[i].id
                  list == r.groomers[i].appointments
              IN  /\ Range(list) =
                        {<<"appointment", a>> : a \in BookedOn(b, g, date)}
                        \cup
                        {<<"block", k>> : k \in
                            {n \in Range(get_daily_time_blocks(b, date)) :
                                time_blocks[n].staff_id = g}}
                  /\ \A m, n \in DOMAIN list :
                        m < n => ItemStart(list[m]) <= ItemStart(list[n])

\* C20: an appointment on the target date whose staff_id is not in the
\* business's active-groomer set (a deactivated member or a member of
\* another role) appears in no groomer's list and creates no extra group,
\* and get_daily_appointments still returns its response, having logged
\* the appointment.
C20_OrphanDropped ==
    \A b \in Businesses, date \in Dates :
        LET r == get_daily_appointments(b, date)
        IN  \A a \in AppointmentIds :
              ( /\ appointments[a].business_id = b
                /\ DateOf(appointments[a].appointment_datetime) = date
                /\ appointments[a].staff_id \notin ActiveGroomers(b) )
              => /\ \A i \in DOMAIN r.groomers :
                       /\ <<"appointment", a>>
                            \notin Range(r.groomers[i].appointments)
                       /\ r.groomers[i].id # appointments[a].staff_id
                 /\ Len(r.groomers) = Cardinality(ActiveGroomers(b))
                 /\ a \in r.warnings
                 /\ r.total_appointments >= 1

\* Day 0 of business 1 holds the appointment of the deactivated groomer 3
\* and one just created for staff member 4, who is no groomer: the schedule
\* has the two active groomers only and lists neither appointment.
C20_Witness ==
    LET r == get_daily_appointments(1, 0)
    IN  /\ last.op = "create_appointment"
        /\ Len(appointments) = 3
        /\ appointments[2].staff_id = 3
        /\ appointments[3].staff_id = 4
        /\ DateOf(appointments[3].appointment_datetime) = 0
        /\ r.warnings = {2, 3}
        /\ Len(r.groomers) = 2

\* The number of items in the groomers' lists of a response.
RECURSIVE ShownCount(_)
ShownCount(groomers) ==
    IF groomers = << >> THEN 0
    ELSE Len(Head(groomers).appointments) + ShownCount(Tail(groomers))

\* C30: in every get_daily_appointments response, total_appointments equals
\* the sum of the lengths of the groomers' appointment lists, the number of
\* appointments shown for the date.
C30_TotalCountsShown ==
    \A b \in Businesses, date \in Dates :
        LET r == get_daily_appointments(b, date)
        IN  r.total_appointments = ShownCount(r.groomers)

-----------------------------------------------------------------------------
(* Further properties of the payment state machine *)

\* The money fields of an Order row.
Money(ord) ==
    <<ord.subtotal, ord.tax, ord.tip, ord.total, ord.discount_type,
      ord.discount_value, ord.discount_amount>>

\* C22: completing a payment through poll_payment_status leaves the Order's
\* tip, total, subtotal, tax and discount fields unchanged: the tip
\* collected on the terminal is recorded only in Payment.tip_amount.
C22_CompletionKeepsOrderMoney ==
    [][\A c \in PollCalls :
          ( /\ poll_payment_status(c[1], c[2], c[3])
            /\ last'.outcome = "ok"
            /\ c[3].status = "COMPLETED"
            /\ payments[c[1]].order_id # Null )
          => /\ \A o \in OrderIds : Money(orders'[o]) = Money(orders[o])
             /\ TipMoney(c[3]) # NoTip =>
                  payments'[c[1]].tip_amount
                      = DollarsFromCents(TipMoney(c[3]))]_vars

\* A poll has completed the Payment of the 80.00 order with a tip of 2.50:
\* the Payment carries the tip, the Order is paid with tip 0.00 and its
\* total of 86.40.
C22_Witness ==
    /\ last.op = "poll" /\ last.outcome = "ok"
    /\ \E p \in PaymentIds :
          /\ payments[p].status = "completed"
          /\ payments[p].tip_amount = 250
          /\ payments[p].order_id = 1
          /\ orders[1].payment_status = "paid"
          /\ orders[1].tip = 0
          /\ orders[1].total = 8640

-----------------------------------------------------------------------------
(* One order with two payments initiated while it was unpaid and pending *)

\* Order 1 after two successful initiate_terminal_payment calls on device 1.
InitPaid ==
    /\ appointments = PayAppointments
    /\ orders = << PendingOrder(NewOrder(1, 1, 800, 1)) >>
    /\ payments = << InitiatedPayment(1, 1, 1, 1), InitiatedPayment(1, 1, 1, 2) >>
    /\ devices = DeviceIds
    /\ checkouts = 2
    /\ now = 1
    /\ last = [op |-> "initiate", outcome |-> "ok", provider |-> TRUE]
    /\ requests = << >>
    /\ tax_rates = << 800 >>
    /\ time_blocks = << >>

SpecPaid == InitPaid /\ [][Next]_vars

\* C25: once an Order's payment_status is "paid", no later
\* initiate_terminal_payment, poll_payment_status or cancel_payment call on
\* any Payment of that Order changes it, also when the Order has several
\* Payments that were initiated while it was unpaid or pending.
C25_PaidStaysPaid ==
    [][\A o \in OrderIds :
          orders[o].payment_status = "paid"
              => orders'[o].payment_status = "paid"]_vars

-----------------------------------------------------------------------------
(* The payment state machine with a caller who keeps polling *)

\* A poll of Payment p that reaches the provider while the provider reports
\* an end state of the checkout.
PollEnded(p) ==
    \E b \in Businesses :
        \E resp \in {r \in Responses :
                        r.status \in {"COMPLETED", "CANCELED", "FAILED"}} :
            /\ PollOutcome(p, b, resp) = "ok"
            /\ payments[p].status = "pending"
            /\ poll_payment_status(p, b, resp)

NextLive == Initiate \/ Poll \/ Cancel \/ DeleteDevice \/ Tick

\* The caller keeps polling and the provider eventually reports the end of
\* the checkout: a poll that observes an end state is not postponed forever.
SpecLive ==
    /\ Init
    /\ [][NextLive]_vars
    /\ \A p \in 1..MaxCheckouts : WF_vars(PollEnded(p))

\* The Payment's device row and an active configuration are there.
Pollable(p) ==
    /\ payments[p].payment_device_id \in devices
    /\ ConfigUsable(payments[p].payment_device_id)

\* C24: a Payment's status changes only inside poll_payment_status or
\* cancel_payment, so a Payment that is neither polled nor cancelled stays
\* "pending"; and if the caller keeps polling a pending Payment whose device
\* configuration stays active and the provider eventually reports
\* COMPLETED, CANCELED or FAILED, the Payment eventually leaves "pending".
C24_PendingUntilPolled ==
    /\ [][\A p \in PaymentIds :
             payments'[p].status # payments[p].status
                 => /\ last'.op \in {"poll", "cancel"}
                    /\ last'.outcome = "ok"]_vars
    /\ \A p \in 1..MaxCheckouts :
          (p \in PaymentIds /\ payments[p].status = "pending")
              ~> (p \in PaymentIds
                    /\ (payments[p].status # "pending" \/ ~Pollable(p)))

\* A Payment stayed pending while the clock advanced and then left
\* "pending" through a poll.
C24_Witness ==
    /\ now = MaxTime
    /\ last.op = "poll" /\ last.outcome = "ok"
    /\ \E p \in PaymentIds :
          /\ payments[p].status \in {"failed", "cancelled"}
          /\ payments[p].failed_at = MaxTime
          /\ Pollable(p)

-----------------------------------------------------------------------------
(* Further properties of the order engine *)

\* C27: update_order_discount is idempotent: applying the same
\* (discount_type, discount_value) to an Order twice in a row leaves
\* discount_amount, tax and total exactly as they were after the first
\* application.
C27_DiscountIdempotent ==
    [][\A c \in DiscountCalls :
          ( /\ UpdatesFound(c)
            /\ last.op = "update_discount" /\ last.outcome = "ok"
            /\ orders[c[1]].discount_type = c[3]
            /\ orders[c[1]].discount_value = c[4] )
          => /\ orders'[c[1]].discount_amount = orders[c[1]].discount_amount
             /\ orders'[c[1]].tax = orders[c[1]].tax
             /\ orders'[c[1]].total = orders[c[1]].total]_vars

\* C28: order numbers produced by generate_order_number are unique: any two
\* create_order_from_appointment calls for different appointments, made at
\* any times (within the same clock second and for the same business
\* included), get different order_number values and both succeed.
C28_OrderNumbersUnique ==
    \A s, t \in Slots :
        ( /\ s # t
          /\ requests[s].pc = "done" /\ requests[t].pc = "done"
          /\ requests[s].appointment_id # requests[t].appointment_id
          /\ AppointmentFound(requests[s].appointment_id,
                              requests[s].business_id)
          /\ AppointmentFound(requests[t].appointment_id,
                              requests[t].business_id)
          /\ \A u \in Slots \ {s, t} :
                requests[u].appointment_id
                    \notin {requests[s].appointment_id,
                            requests[t].appointment_id} )
        => /\ requests[s].outcome = "ok" /\ requests[t].outcome = "ok"
           /\ \E o1, o2 \in OrderIds :
                 /\ orders[o1].appointment_id = requests[s].appointment_id
                 /\ orders[o2].appointment_id = requests[t].appointment_id
                 /\ orders[o1].order_number # orders[o2].order_number

-----------------------------------------------------------------------------
(* Appointments created and updated *)

MaxBooked == 1

\* service_ids = None of update_appointment.
NoServiceIds == <<NotGiven>>

\* get the appointment by id and business (lines 398-412).
BookedFound(appointment_id, business_id) ==
    /\ appointment_id \in AppointmentIds
    /\ appointments[appointment_id].business_id = business_id

\* update_appointment without the check of the staff member: any staff id
\* is assigned.
UpdateAppointmentOutcome_NoStaffCheck(business_id, appointment_id, staff_id, service_ids) ==
    IF ~BookedFound(appointment_id, business_id)
    THEN "appointment_not_found"
    ELSE IF /\ service_ids # NoServiceIds
            /\ service_ids # << >>
            /\ Cardinality(ServicesFound(service_ids, business_id))
                 # Len(service_ids)
    THEN "services_not_found"
    ELSE "ok"

\* The checks of update_appointment in their order (lines 398-454).
UpdateAppointmentOutcome(business_id, appointment_id, staff_id, service_ids) ==
    IF ~BookedFound(appointment_id, business_id)
    THEN "appointment_not_found"
    ELSE IF staff_id # NotGiven /\ ~ActiveStaffFound(staff_id, business_id)
    THEN "staff_not_found"
    ELSE IF /\ service_ids # NoServiceIds
            /\ service_ids # << >>
            /\ Cardinality(ServicesFound(service_ids, business_id))
                 # Len(service_ids)
    THEN "services_not_found"
    ELSE "ok"

\* The row update_appointment commits (lines 433-470).
UpdatedAppointment(row, staff_id, service_ids, appointment_datetime, duration_minutes) ==
    LET services == IF service_ids = NoServiceIds THEN row.services
                    ELSE ById(ServicesFound(service_ids, row.business_id))
    IN  [row EXCEPT
           !.staff_id = IF staff_id # NotGiven THEN staff_id ELSE @,
           !.services = services,
           !.price = IF services = << >> THEN NoService
                     ELSE ServiceRow(services[1]).price,
           !.appointment_datetime =
               IF appointment_datetime # NotGiven
               THEN appointment_datetime ELSE @,
           !.duration_minutes =
               IF duration_minutes # NotGiven THEN duration_minutes ELSE @]

\* UpdateAppointmentResponse (schemas/appointment.py lines 80-92) and the
\* keyword arguments of the endpoint (api/appointments.py lines 182-195).
UpdateAppointmentResponseRequired == CreateAppointmentResponseRequired

UpdateAppointmentResponsePassed == CreateAppointmentResponsePassed

\* The endpoint update_existing_appointment: update_appointment commits, or
\* raises before its commit and the session is closed without one; then the
\* response is built as in create_new_appointment.
update_existing_appointment(business_id, appointment_id, staff_id, service_ids, appointment_datetime, duration_minutes) ==
    LET outcome == UpdateAppointmentOutcome(business_id, appointment_id,
                                            staff_id, service_ids)
    IN  /\ IF outcome = "ok"
           THEN /\ appointments' = [appointments EXCEPT ![appointment_id] =
                       UpdatedAppointment(@, staff_id, service_ids,
                           appointment_datetime, duration_minutes)]
                /\ last' = ScheduleResult("update_appointment",
                       IF UpdateAppointmentResponseRequired
                              \subseteq UpdateAppointmentResponsePassed
                       THEN "ok" ELSE "server_error",
                       NoConflict)
           ELSE /\ appointments' = appointments
                /\ last' = ScheduleResult("update_appointment", outcome,
                                          NoConflict)
        /\ UNCHANGED <<time_blocks, orders, payments, devices, checkouts, now,
                       requests, tax_rates>>

UpdateServiceLists == ServiceLists \cup {NoServiceIds}

UpdateStaff == StaffIds \cup {NotGiven}

UpdateStarts == {NotGiven, 0}

UpdateDurations == {NotGiven, MaxDuration}

AppointmentUpdates ==
    (1..MaxBooked) \X Businesses \X UpdateStaff \X UpdateServiceLists
        \X UpdateStarts \X UpdateDurations

\* A call that fails a check has the same effect whatever its interval is.
UpdateAppointment ==
    \E a \in 1..MaxBooked, b \in Businesses, staff \in UpdateStaff,
       service_ids \in UpdateServiceLists :
        LET ok == UpdateAppointmentOutcome(b, a, staff, service_ids) = "ok"
        IN  \E start \in IF ok THEN UpdateStarts ELSE {NotGiven},
               d \in IF ok THEN UpdateDurations ELSE {NotGiven} :
                update_existing_appointment(b, a, staff, service_ids, start, d)

BookAppointment == Len(appointments) < MaxBooked /\ CreateAppointment

InitBooked ==
    /\ appointments = << >>
    /\ orders = << >>
    /\ payments = << >>
    /\ devices = DeviceIds
    /\ checkouts = 0
    /\ now = 1
    /\ last = Idle
    /\ requests = << >>
    /\ tax_rates = << >>
    /\ time_blocks = << >>

NextBooked == BookAppointment \/ UpdateAppointment

SpecBooked == InitBooked /\ [][NextBooked]_vars

-----------------------------------------------------------------------------
(* Properties of appointment validation *)

\* Every id of the list is a service of the business.
AllServicesOf(service_ids, business_id) ==
    \A v \in Range(service_ids) :
        v \in ServiceIds /\ ServiceRow(v).business_id = business_id

\* The outcomes that are an AppointmentServiceError.
ServiceErrors ==
    {"pet_not_found", "staff_not_found", "status_not_found",
     "services_not_found", "appointment_not_found"}

\* The create_appointment step of call c.
Creates(c) ==
    /\ last'.op = "create_appointment"
    /\ create_new_appointment(c[1], c[2], c[3], c[4], c[5], c[6])

\* The update_appointment step of call c.
Updates(c) ==
    /\ last'.op = "update_appointment"
    /\ update_existing_appointment(c[2], c[1], c[3], c[4], c[5], c[6])

\* C23: create_appointment persists an appointment only if the pet exists
\* in the business, the staff member is an active member of the business
\* and every requested service is a service of the business; otherwise it
\* raises a service error and persists nothing.  The persisted appointment
\* takes its customer from the pet and starts in status "scheduled".
\* update_appointment applies the same staff and service checks and changes
\* nothing when one fails.
C23_ValidatedBeforePersisted ==
    [][ /\ \A c \in AppointmentCalls :
             Creates(c) =>
               LET valid == /\ PetRow(c[2]).business_id = c[1]
                            /\ ActiveStaffFound(c[3], c[1])
                            /\ AllServicesOf(c[4], c[1])
               IN  /\ appointments' # appointments => valid
                   /\ ~valid => /\ last'.outcome \in ServiceErrors
                                /\ appointments' = appointments
                   /\ appointments' # appointments =>
                        LET row == appointments'[Len(appointments')]
                        IN  /\ appointments' = Append(appointments, row)
                            /\ row.business_id = c[1]
                            /\ row.pet_id = c[2]
                            /\ row.staff_id = c[3]
                            /\ row.customer_id = PetRow(c[2]).customer_id
                            /\ row.status = "scheduled"
        /\ \A c \in AppointmentUpdates :
             (Updates(c) /\ BookedFound(c[1], c[2])) =>
               LET valid == /\ c[3] # NotGiven => ActiveStaffFound(c[3], c[2])
                            /\ c[4] # NoServiceIds => AllServicesOf(c[4], c[2])
               IN  /\ appointments' # appointments => valid
                   /\ ~valid => /\ last'.outcome \in ServiceErrors
                                /\ appointments' = appointments ]_vars

\* An appointment of pet 1 stands booked with groomer 2, with the customer of
\* the pet and status "scheduled", and an update that names a staff member
\* who is not an active member of the business was refused.
C23_Witness ==
    /\ last.op = "update_appointment"
    /\ last.outcome = "staff_not_found"
    /\ Len(appointments) = 1
    /\ appointments[1].staff_id = 2
    /\ appointments[1].customer_id = PetRow(1).customer_id
    /\ appointments[1].status = "scheduled"

\* C29: create_appointment and update_appointment accept every service_ids
\* list all of whose ids are services of the business, a list that repeats
\* an id included; they reject a list only when some id in it is not a
\* service of the business.
C29_RepeatedServiceAccepted ==
    [][ /\ \A c \in AppointmentCalls :
             ( /\ Creates(c)
               /\ PetRow(c[2]).business_id = c[1]
               /\ ActiveStaffFound(c[3], c[1]) )
             => (last'.outcome = "services_not_found"
                    <=> ~AllServicesOf(c[4], c[1]))
        /\ \A c \in AppointmentUpdates :
             ( /\ Updates(c)
               /\ BookedFound(c[1], c[2])
               /\ c[3] # NotGiven => ActiveStaffFound(c[3], c[2])
               /\ c[4] # NoServiceIds )
             => (last'.outcome = "services_not_found"
                    <=> ~AllServicesOf(c[4], c[2])) ]_vars

-----------------------------------------------------------------------------
(* An order charged on a terminal while its discount and tip can be edited *)

\* Order 1 of business 1, unpaid, with no payment yet.
InitCharge ==
    /\ appointments = PayAppointments
    /\ orders = << NewOrder(1, 1, 800, 1) >>
    /\ payments = << >>
    /\ devices = DeviceIds
    /\ checkouts = 0
    /\ now = 1
    /\ last = Idle
    /\ requests = << >>
    /\ tax_rates = << 800 >>
    /\ time_blocks = << >>

\* The discounts set while the order is being paid: none, and one of the
\* whole subtotal, after which the recalculated tax stays 0.
ChargeDiscounts == {<<"none", NoDiscount>>, <<"dollar", MaxValue>>}

ChargeDiscount ==
    \E o \in 1..(Len(orders) + 1), b \in Businesses :
        \E c \in IF OrderFound(o, b) THEN ChargeDiscounts
                  ELSE {<<"none", NoDiscount>>} :
            update_order_discount(o, b, c[1], c[2])

NextCharge == Initiate \/ Poll \/ Cancel \/ ChargeDiscount \/ AddTip

SpecCharge == InitCharge /\ [][NextCharge]_vars

\* C26: for every completed charge Payment linked to an Order,
\* Payment.amount equals Order.total: the totals of an Order cannot change
\* between the initiation and the completion of its payment, nor after it,
\* update_order_discount and add_tip_to_order included.
C26_AmountIsOrderTotal ==
    \A p \in PaymentIds :
        (payments[p].status = "completed" /\ payments[p].order_id # Null)
            => payments[p].amount = OrderOf(p).total

-----------------------------------------------------------------------------
(* Two businesses on one store: scheduling, orders and payments together *)

\* create_appointment calls of both businesses with the pets, one groomer
\* and one service of each business.
TenantBookings == Businesses \X PetIds \X {1, 5} \X {<<1>>, <<2>>}

TenantBook ==
    /\ Len(appointments) < MaxBooked
    /\ \E c \in TenantBookings :
          create_new_appointment(c[1], c[2], c[3], c[4], 0, 1)

\* update_appointment calls that name a staff member of either business.
TenantUpdates == (1..MaxBooked) \X Businesses \X {NotGiven, 2, 5}

TenantUpdate ==
    \E c \in TenantUpdates :
        update_existing_appointment(c[2], c[1], c[3], NoServiceIds,
                                    NotGiven, NotGiven)

\* create_time_block calls of both businesses for a groomer of each.
TenantBlocks == Businesses \X {1, 5}

TenantBlock ==
    /\ Len(time_blocks) < MaxDailyBlocks
    /\ \E c \in TenantBlocks : create_time_block(c[1], c[2], 0, 1)

\* update_time_block calls that lengthen a block.
TenantBlockUpdates == (1..MaxDailyBlocks) \X Businesses

TenantUpdateBlock ==
    \E c \in TenantBlockUpdates :
        update_time_block(c[2], c[1], NotGiven, MaxDuration)

\* update_order_discount calls that discount the whole subtotal.
TenantDiscounts == (1..MaxOrders) \X Businesses

TenantDiscount ==
    \E c \in TenantDiscounts :
        update_order_discount(c[1], c[2], "dollar", MaxValue)

\* The answers of the provider to a poll: still pending, completed without a
\* tip, cancelled, and a call that raises.
TenantResponses ==
    {r \in Responses : /\ r.status \in {"PENDING", "COMPLETED", "CANCELED",
                                         "RAISE"}
                        /\ ~r.payment_id
                        /\ r.tip = NoTip}

TenantPolls == (1..MaxCheckouts) \X Businesses \X TenantResponses

TenantPoll ==
    \E c \in TenantPolls : poll_payment_status(c[1], c[2], c[3])

\* initiate_terminal_payment calls of both businesses on the active terminal
\* of each, answered by the provider.
TenantInitiates == (1..MaxOrders) \X Businesses \X {1, 3}

TenantInitiate ==
    \E c \in TenantInitiates :
        initiate_terminal_payment(c[1], c[2], c[3], "ok")

\* delete_payment_device calls of both businesses for the terminal of
\* business 1.
TenantDeletes == Businesses \X {1}

TenantDelete ==
    \E c \in TenantDeletes : delete_payment_device(c[1], c[2])

InitTenant ==
    /\ appointments = << >>
    /\ orders = << >>
    /\ payments = << >>
    /\ devices = DeviceIds
    /\ checkouts = 0
    /\ now = 1
    /\ last = Idle
    /\ requests = << >>
    /\ tax_rates = << >>
    /\ time_blocks = << >>

NextTenant ==
    \/ TenantBook
    \/ TenantUpdate
    \/ TenantBlock
    \/ TenantUpdateBlock
    \/ CreateOrder
    \/ TenantDiscount
    \/ TenantInitiate
    \/ TenantPoll
    \/ Cancel
    \/ TenantDelete

SpecTenant == InitTenant /\ [][NextTenant]_vars

\* Rows old and new of a table around a call made for business b: every row
\* that is new or differs is a row of b, and was a row of b before.
OnlyRowsOf(old, new, b) ==
    /\ Len(new) >= Len(old)
    /\ \A i \in DOMAIN new :
          (i \notin DOMAIN old \/ new[i] # old[i])
              => /\ new[i].business_id = b
                 /\ i \in DOMAIN old => old[i].business_id = b

\* A step made for business b leaves the rows of every other business as
\* they were.
Isolated(b) ==
    /\ OnlyRowsOf(appointments, appointments', b)
    /\ OnlyRowsOf(time_blocks, time_blocks', b)
    /\ OnlyRowsOf(orders, orders', b)
    /\ OnlyRowsOf(payments, payments', b)
    /\ \A d \in devices \ devices' : DeviceRow(d).business_id = b

\* The conflicts a scheduling call of business b returns name rows of b.
ConflictsOf(conflicts, b) ==
    \A x \in conflicts :
        IF x[1] = "appointment" THEN appointments[x[2]].business_id = b
        ELSE time_blocks[x[2]].business_id = b

\* Each Appointment's pet and staff member, each Order's appointment and
\* each Payment's order and device are of the entity's own business.
SameBusiness ==
    /\ \A a \in AppointmentIds :
          /\ PetRow(appointments[a].pet_id).business_id
                = appointments[a].business_id
          /\ StaffRow(appointments[a].staff_id).business_id
                = appointments[a].business_id
    /\ \A o \in OrderIds :
          appointments[orders[o].appointment_id].business_id
              = orders[o].business_id
    /\ \A p \in PaymentIds :
          /\ payments[p].order_id # Null =>
                orders[payments[p].order_id].business_id
                    = payments[p].business_id
          /\ payments[p].payment_device_id # Null =>
                DeviceRow(payments[p].payment_device_id).business_id
                    = payments[p].business_id

\* What the read operations return to business b is of business b.
ReadsOwn ==
    \A b \in Businesses :
        /\ \A o \in OrderIds : OrderFound(o, b) => orders[o].business_id = b
        /\ \A p \in PaymentIds :
              PaymentFound(p, b) => payments[p].business_id = b
        /\ \A k \in TimeBlockIds :
              TimeBlockFound(k, b) => time_blocks[k].business_id = b
        /\ \A a \in AppointmentIds :
              /\ BookedFound(a, b) => appointments[a].business_id = b
              /\ AppointmentFound(a, b) => appointments[a].business_id = b
        /\ \A d \in Dates :
              /\ \A k \in Range(get_daily_time_blocks(b, d)) :
                    time_blocks[k].business_id = b
              /\ LET daily == get_daily_appointments(b, d)
                 IN  \A i \in DOMAIN daily.groomers :
                        /\ StaffRow(daily.groomers[i].id).business_id = b
                        /\ \A n \in DOMAIN daily.groomers[i].appointments :
                              appointments[daily.groomers[i].appointments[n][2]]
                                  .business_id = b

====
